---------------------------- MODULE Spec2Model ----------------------------
(***************************************************************************)
(* Model of the per-cycle decision engine of trade_copier                  *)
(* (src/trade_logic/engine.py) together with the terminal it trades on.    *)
(*                                                                         *)
(* Units.  Volumes are counted in centi-lots (0.01 lot), the smallest lot  *)
(* step of the terminal; real-valued quantities (consolidated exposure,    *)
(* target, prices, multipliers) are exact rationals [n, d] in lowest       *)
(* terms, so in the engine floating-point rounding error is abstracted to  *)
(* real arithmetic; SpecRounding runs round_down_to_step on doubles.       *)
(* Currency amounts of the unit ledger are counted in hundreds of currency *)
(* units, which keeps every product inside TLC's 32-bit integers.  Symbols *)
(* are sequences of one-character strings so that slicing, length and      *)
(* prefix tests are computed as the code does.                             *)
(***************************************************************************)
EXTENDS Integers, Sequences, FiniteSets, TLC

\* Python's None and a present value; "no symbol" (None or "") is <<>>
None == [some |-> FALSE]
Some(v) == [some |-> TRUE, val |-> v]
NoSymbol == <<>>

-----------------------------------------------------------------------------
(* Exact rational arithmetic standing for Python floats.                   *)

Abs(x) == IF x < 0 THEN -x ELSE x

RECURSIVE GCD(_, _)
GCD(a, b) == IF b = 0 THEN a ELSE GCD(b, a % b)

Rat(n, d) ==
    LET g == GCD(Abs(n), Abs(d))
        s == IF d < 0 THEN -1 ELSE 1
    IN  [n |-> s * (n \div g), d |-> s * (d \div g)]

R(i) == [n |-> i, d |-> 1]
RZero == R(0)
RAdd(a, b) == Rat(a.n * b.d + b.n * a.d, a.d * b.d)
RNeg(a) == [n |-> -a.n, d |-> a.d]
RSub(a, b) == RAdd(a, RNeg(b))
RMul(a, b) == Rat(a.n * b.n, a.d * b.d)
RDiv(a, b) == Rat(a.n * b.d, a.d * b.n)
RAbs(a) == [n |-> Abs(a.n), d |-> a.d]
RLt(a, b) == a.n * b.d < b.n * a.d
RLe(a, b) == a.n * b.d <= b.n * a.d
RGt(a, b) == RLt(b, a)
RGe(a, b) == RLe(b, a)
RFloor(a) == a.n \div a.d
IsMultiple(a, step) == a.d = 1 /\ a.n % step = 0

\* Python round(x, 2) on a volume in lots: nearest centi-lot, ties to even.
Round2(a) ==
    LET f == RFloor(a)
        twice == 2 * (a.n - f * a.d)
    IN  IF twice < a.d THEN R(f)
        ELSE IF twice > a.d THEN R(f + 1)
        ELSE IF f % 2 = 0 THEN R(f) ELSE R(f + 1)

RECURSIVE SumSeq(_)
SumSeq(s) == IF s = <<>> THEN RZero ELSE RAdd(Head(s), SumSeq(Tail(s)))

-----------------------------------------------------------------------------
(* utils.round_down_to_step: floor |x| to a multiple of step, keep sign.   *)

round_down_to_step_KeepSmall(x, step) ==
    IF step <= 0 THEN x
    ELSE LET ax == RAbs(x)
             units == RFloor(Rat(ax.n, ax.d * step))
             val == R(units * step)
         IN  IF RLt(ax, R(step)) THEN x
             ELSE IF x.n >= 0 THEN val ELSE RNeg(val)

round_down_to_step(x, step) ==
    IF step <= 0 THEN x
    ELSE LET ax == RAbs(x)
             units == RFloor(Rat(ax.n, ax.d * step))
             val == R(units * step)
         IN  IF RLt(ax, R(step)) THEN RZero
             ELSE IF x.n >= 0 THEN val ELSE RNeg(val)

-----------------------------------------------------------------------------
(* The same function on IEEE 754 binary64, the arithmetic CPython runs it  *)
(* in.  A double is [neg, m, e]: the value (-1)^neg * m * 2^e with         *)
(* 2^52 <= m < 2^53, or m = 0.  Mantissas and the exact products and       *)
(* quotients they are rounded from exceed TLC's integers, so they are      *)
(* natural numbers written in base Base, least significant digit first,    *)
(* without leading zero digits (<<>> is 0).                                *)

Base == 4096
DigitBits == 12
Precision == 53

RECURSIVE Pow2(_)
Pow2(k) == IF k = 0 THEN 1 ELSE 2 * Pow2(k - 1)

RECURSIVE BNorm(_)
BNorm(a) ==
    IF a = <<>> THEN a
    ELSE IF a[Len(a)] = 0 THEN BNorm(SubSeq(a, 1, Len(a) - 1)) ELSE a

RECURSIVE BFromInt(_)
BFromInt(n) == IF n = 0 THEN <<>> ELSE <<n % Base>> \o BFromInt(n \div Base)

RECURSIVE BToInt(_)
BToInt(a) == IF a = <<>> THEN 0 ELSE a[1] + Base * BToInt(Tail(a))

Digit(a, i) == IF i <= Len(a) THEN a[i] ELSE 0

RECURSIVE BAddFrom(_, _, _, _)
BAddFrom(a, b, i, carry) ==
    IF i > Len(a) /\ i > Len(b)
    THEN IF carry = 0 THEN <<>> ELSE <<carry>>
    ELSE <<(Digit(a, i) + Digit(b, i) + carry) % Base>>
         \o BAddFrom(a, b, i + 1, (Digit(a, i) + Digit(b, i) + carry) \div Base)

BAdd(a, b) == BAddFrom(a, b, 1, 0)

\* a - b for a >= b
RECURSIVE BSubFrom(_, _, _, _)
BSubFrom(a, b, i, borrow) ==
    IF i > Len(a) THEN <<>>
    ELSE IF a[i] - Digit(b, i) - borrow < 0
         THEN <<a[i] - Digit(b, i) - borrow + Base>> \o BSubFrom(a, b, i + 1, 1)
         ELSE <<a[i] - Digit(b, i) - borrow>> \o BSubFrom(a, b, i + 1, 0)

BSub(a, b) == BNorm(BSubFrom(a, b, 1, 0))

\* -1, 0, 1 as a is below, equal to, above b
RECURSIVE BCmpFrom(_, _, _)
BCmpFrom(a, b, i) ==
    IF i = 0 THEN 0
    ELSE IF a[i] < b[i] THEN -1
    ELSE IF a[i] > b[i] THEN 1
    ELSE BCmpFrom(a, b, i - 1)

BCmp(a, b) ==
    IF Len(a) < Len(b) THEN -1
    ELSE IF Len(a) > Len(b) THEN 1
    ELSE BCmpFrom(a, b, Len(a))

\* a * d for one digit d
RECURSIVE BMulDigitFrom(_, _, _, _)
BMulDigitFrom(a, d, i, carry) ==
    IF i > Len(a)
    THEN IF carry = 0 THEN <<>> ELSE <<carry>>
    ELSE <<(a[i] * d + carry) % Base>>
         \o BMulDigitFrom(a, d, i + 1, (a[i] * d + carry) \div Base)

BMulDigit(a, d) == BNorm(BMulDigitFrom(a, d, 1, 0))

BShiftDigits(a, k) == IF a = <<>> THEN a ELSE [i \in 1..k |-> 0] \o a

RECURSIVE BMulFrom(_, _, _)
BMulFrom(a, b, i) ==
    IF i > Len(b) THEN <<>>
    ELSE BAdd(BShiftDigits(BMulDigit(a, b[i]), i - 1), BMulFrom(a, b, i + 1))

BMul(a, b) == BMulFrom(a, b, 1)

\* a * 2^k
BShl(a, k) == BShiftDigits(BMulDigit(a, Pow2(k % DigitBits)), k \div DigitBits)

RECURSIVE IntBits(_)
IntBits(n) == IF n = 0 THEN 0 ELSE 1 + IntBits(n \div 2)

\* the number of binary digits of a
BBits(a) ==
    IF a = <<>> THEN 0 ELSE DigitBits * (Len(a) - 1) + IntBits(a[Len(a)])

BOdd(a) == a # <<>> /\ a[1] % 2 = 1

\* the digit g with g * d <= r < (g + 1) * d, for r < Base * d
RECURSIVE Bisect(_, _, _, _)
Bisect(r, d, lo, hi) ==
    IF hi - lo = 1 THEN lo
    ELSE IF BCmp(BMulDigit(d, (lo + hi) \div 2), r) <= 0
         THEN Bisect(r, d, (lo + hi) \div 2, hi)
         ELSE Bisect(r, d, lo, (lo + hi) \div 2)

\* one step of long division: quotient digit g joins q, r loses g * d
BDivStep(d, q, r, g) == [q |-> <<g>> \o q, r |-> BSub(r, BMulDigit(d, g))]

\* long division of n by d from digit i downwards
RECURSIVE BDivFrom(_, _, _, _)
BDivFrom(n, d, i, acc) ==
    IF i = 0 THEN acc
    ELSE BDivFrom(n, d, i - 1,
             BDivStep(d, acc.q, BNorm(<<n[i]>> \o acc.r),
                      Bisect(BNorm(<<n[i]>> \o acc.r), d, 0, Base)))

\* floor(n / d)
BQuot(n, d) == BNorm(BDivFrom(n, d, Len(n), [q |-> <<>>, r |-> <<>>]).q)

FZero == [neg |-> FALSE, m |-> <<>>, e |-> 0]

FNeg(a) == [a EXCEPT !.neg = ~a.neg]

\* n / (d * 2^e) rounded to an integer mantissa, ties to even; e is chosen
\* by the caller so that the quotient has Precision bits
RoundAt(n, d, e, q) ==
    IF BCmp(BShl(BSub(n, BMul(q, d)), 1), d) > 0
       \/ (BCmp(BShl(BSub(n, BMul(q, d)), 1), d) = 0 /\ BOdd(q))
    THEN IF BBits(BAdd(q, <<1>>)) > Precision
         THEN [neg |-> FALSE, m |-> BQuot(BAdd(q, <<1>>), <<2>>), e |-> e + 1]
         ELSE [neg |-> FALSE, m |-> BAdd(q, <<1>>), e |-> e]
    ELSE [neg |-> FALSE, m |-> q, e |-> e]

ScaledAt(n, d, e) ==
    RoundAt(IF e < 0 THEN BShl(n, -e) ELSE n, IF e > 0 THEN BShl(d, e) ELSE d, e,
            BQuot(IF e < 0 THEN BShl(n, -e) ELSE n,
                  IF e > 0 THEN BShl(d, e) ELSE d))

\* the exponent that leaves n / (d * 2^e) in [2^52, 2^53)
Exponent(n, d, e0) ==
    IF (IF e0 < 0 THEN BCmp(BShl(n, -e0), BShl(d, Precision))
        ELSE BCmp(n, BShl(d, e0 + Precision))) < 0
    THEN e0 ELSE e0 + 1

\* the double nearest to (n / d) * 2^x, for naturals n and d > 0
FRound(n, d, x) ==
    IF n = <<>> THEN FZero
    ELSE [ScaledAt(n, d, Exponent(n, d, BBits(n) - BBits(d) - Precision))
            EXCEPT !.e = @ + x]

\* the double a decimal literal i/j denotes
FLiteral(i, j) ==
    IF i < 0 THEN FNeg(FRound(BFromInt(-i), BFromInt(j), 0))
    ELSE FRound(BFromInt(i), BFromInt(j), 0)

\* |a| / |b| and k * |b| as the hardware rounds them
FDiv(a, b) == FRound(a.m, b.m, a.e - b.e)

FMulInt(k, b) == FRound(BMul(BFromInt(k), b.m), <<1>>, b.e)

FAbs(a) == [a EXCEPT !.neg = FALSE]

\* -1, 0, 1 as |a| is below, equal to, above |b|
FCmpAbs(a, b) ==
    IF a.m = <<>> \/ b.m = <<>>
    THEN (IF a.m = <<>> THEN 0 ELSE 1) - (IF b.m = <<>> THEN 0 ELSE 1)
    ELSE IF a.e < b.e THEN BCmp(a.m, BShl(b.m, b.e - a.e))
    ELSE BCmp(BShl(a.m, a.e - b.e), b.m)

\* math.floor of a non-negative double
FFloor(a) ==
    IF a.m = <<>> THEN 0
    ELSE IF a.e >= 0 THEN BToInt(BShl(a.m, a.e))
    ELSE BToInt(BQuot(a.m, BShl(<<1>>, -a.e)))

\* a + b on aligned mantissas ma, mb (units of 2^e), as the hardware rounds
FAddAt(a, b, e, ma, mb) ==
    IF a.neg = b.neg
    THEN IF BAdd(ma, mb) = <<>> THEN FZero
         ELSE [FRound(BAdd(ma, mb), <<1>>, e) EXCEPT !.neg = a.neg]
    ELSE IF BCmp(ma, mb) = 0 THEN FZero
    ELSE IF BCmp(ma, mb) > 0
    THEN [FRound(BSub(ma, mb), <<1>>, e) EXCEPT !.neg = a.neg]
    ELSE [FRound(BSub(mb, ma), <<1>>, e) EXCEPT !.neg = b.neg]

FAddExp(a, b, e) ==
    FAddAt(a, b, e,
           IF a.m = <<>> THEN <<>> ELSE BShl(a.m, a.e - e),
           IF b.m = <<>> THEN <<>> ELSE BShl(b.m, b.e - e))

FAdd(a, b) ==
    FAddExp(a, b, IF a.m = <<>> THEN b.e
                  ELSE IF b.m = <<>> THEN a.e
                  ELSE IF a.e < b.e THEN a.e ELSE b.e)

FSub(a, b) == FAdd(a, FNeg(b))

\* n / d to the nearest integer, ties to even, q being floor(n / d)
HalfEven(n, d, q) ==
    IF BCmp(BShl(BSub(n, BMul(q, d)), 1), d) > 0
       \/ (BCmp(BShl(BSub(n, BMul(q, d)), 1), d) = 0 /\ BOdd(q))
    THEN BToInt(q) + 1
    ELSE BToInt(q)

\* |a| in hundredths, correctly rounded
FCenti(a) ==
    IF a.m = <<>> THEN 0
    ELSE IF a.e >= 0 THEN BToInt(BShl(BMulDigit(a.m, 100), a.e))
    ELSE HalfEven(BMulDigit(a.m, 100), BShl(<<1>>, -a.e),
                  BQuot(BMulDigit(a.m, 100), BShl(<<1>>, -a.e)))

\* Python's round(a, 2): the double nearest to a's value rounded to two
\* decimals
FRound2(a) == FLiteral(IF a.neg THEN -FCenti(a) ELSE FCenti(a), 100)

\* sum(...) of doubles, left to right from 0
RECURSIVE FSumFrom(_, _)
FSumFrom(s, acc) ==
    IF s = <<>> THEN acc ELSE FSumFrom(Tail(s), FAdd(acc, Head(s)))

-----------------------------------------------------------------------------
(* SYMBOL_CONFIG, projected on the instruments of the model.               *)

EURUSD == <<"E", "U", "R", "U", "S", "D">>
USDJPY == <<"U", "S", "D", "J", "P", "Y">>
EURJPY == <<"E", "U", "R", "J", "P", "Y">>
XAUUSD == <<"X", "A", "U", "U", "S", "D">>
US30 == <<"U", "S", "3", "0">>
USD == <<"U", "S", "D">>
EUR == <<"E", "U", "R">>
JPY == <<"J", "P", "Y">>
ECN == <<".", "e", "c", "n">>

Alpha == {"A", "B", "C", "D", "E", "F", "G", "H", "I", "J", "K", "L", "M",
          "N", "O", "P", "Q", "R", "S", "T", "U", "V", "W", "X", "Y", "Z"}

\* SYMBOL_CONFIG["symbols"], in the order of the file
ConfigSymbols == <<EURUSD, USDJPY, EURJPY, XAUUSD>>

tradable == {ConfigSymbols[i] : i \in 1..Len(ConfigSymbols)}

\* SYMBOL_CONFIG["symbol_mapping"].get(symbol, symbol)
map(symbol) == IF symbol \in tradable THEN symbol \o ECN ELSE symbol

\* SYMBOL_CONFIG["currency_to_usd_pair"].get(C)
c2u(C) ==
    CASE C = EUR -> EURUSD
      [] C = JPY -> USDJPY
      [] OTHER -> NoSymbol

\* SYMBOL_CONFIG["metadata"][symbol]["contract_size"], default 100000.0
\* (in hundreds of currency units)
_contract_size_for(symbol) ==
    IF symbol = XAUUSD THEN R(100 \div 100) ELSE R(100000 \div 100)

\* SYMBOL_CONFIG["metadata"][symbol]["min_lot"], default 0.01 (centi-lots)
MetaMinLot(symbol) == 1

-----------------------------------------------------------------------------
(* CONFIG: the settings the engine reads.  Money is in account currency,   *)
(* volumes in centi-lots.                                                  *)

DefaultConfig ==
    [ max_position_size              |-> 300 * 100,
      use_fixed_multiplier           |-> FALSE,
      fixed_multiplier               |-> Rat(10, 100),
      trade_size_multiplier          |-> R(1),
      allow_trades_on_neutral_trend  |-> TRUE,
      allow_trades_on_opposite_trend |-> TRUE,
      daily_loss_limit               |-> -5000,
      auto_close_on_daily_loss_limit |-> FALSE,
      use_limit_orders               |-> FALSE,
      enable_partial_limit           |-> TRUE,
      market_order_percentage        |-> Rat(8, 10),
      consolidate_to_usd             |-> TRUE ]

\* The configurations explored: the shipped one, and the shipped one with
\* one group of its switches changed (risk, execution, sizing, routing, or
\* the two trend permissions).
Configs ==
    { DefaultConfig,
      [DefaultConfig EXCEPT !.auto_close_on_daily_loss_limit = TRUE],
      [DefaultConfig EXCEPT !.use_limit_orders = TRUE],
      [DefaultConfig EXCEPT !.use_fixed_multiplier = TRUE],
      [DefaultConfig EXCEPT !.consolidate_to_usd = FALSE] }
    \cup
    { [DefaultConfig EXCEPT !.allow_trades_on_neutral_trend = nt,
                            !.allow_trades_on_opposite_trend = ot] :
        nt \in BOOLEAN, ot \in BOOLEAN }

-----------------------------------------------------------------------------
(* The terminal's market data (MetaTrader5 symbol_info / symbol_info_tick).*)

TermSymbols == {map(s) : s \in tradable} \cup {US30}

\* bid and ask of the terminal's last tick
TickTable(tsym) ==
    CASE tsym = map(EURUSD) -> [bid |-> R(1), ask |-> R(2)]
      [] tsym = map(USDJPY) -> [bid |-> R(3), ask |-> R(5)]
      [] tsym = map(EURJPY) -> [bid |-> R(5), ask |-> R(7)]
      [] tsym = map(XAUUSD) -> [bid |-> R(20), ask |-> R(20)]
      [] OTHER -> [bid |-> R(9), ask |-> R(9)]

\* volume_min and volume_step of symbol_info (centi-lots)
InfoTable(tsym) ==
    IF tsym = map(XAUUSD)
    THEN [volume_min |-> 10, volume_step |-> 10]
    ELSE [volume_min |-> 1, volume_step |-> 1]

-----------------------------------------------------------------------------
VARIABLES
    cfg,        \* CONFIG as the engine reads it
    feed,       \* what the manager feed returns: exposure rows, in order
    deals,      \* profits of today's history deals
    offline,    \* terminal symbols the terminal has no info, tick or rates for
    positions,  \* the terminal's open positions, in order
    orders,     \* the terminal's pending (limit) orders
    out,        \* what the last cycle() returned, sent and logged
    earlier,    \* history: how the cycles before the last one ended:
                \* "none" (there were none), "breach" (all of them on the
                \* risk guard) or "other"
    calc,       \* a call of a pure helper (round_down_to_step on doubles,
                \* compute_trend_metrics): its arguments, locals and return
                \* value, and the statement it is at
    driver      \* the process that calls cycle(): run_headless or run_gui,
                \* where it stands, the Tk timers pending, the calls of
                \* cycle() begun and not yet ended

vars == <<cfg, feed, deals, offline, positions, orders, out, earlier, calc,
         driver>>

-----------------------------------------------------------------------------
(* TerminalClient (src/data_access/data_access.py) over the terminal.      *)

symbol_info(tsym) == IF tsym \in offline THEN None ELSE Some(InfoTable(tsym))

symbol_info_tick(tsym) == IF tsym \in offline THEN None ELSE Some(TickTable(tsym))

\* tick None -> the last M1 close, None when there are no rates either
get_mid_price(tsym) ==
    LET tick == symbol_info_tick(tsym)
    IN  IF tick = None THEN None
        ELSE Some(RDiv(RAdd(tick.val.bid, tick.val.ask), R(2)))

SignedVolume(p) == IF p.type = "BUY" THEN p.volume ELSE RNeg(p.volume)

\* positions_get(symbol=term_symbol)
PositionsOf(pos, tsym) == SelectSeq(pos, LAMBDA p : p.symbol = tsym)

get_current_position(pos, symbol) ==
    LET mine == PositionsOf(pos, map(symbol))
    IN  IF mine = <<>> THEN RZero
        ELSE Round2(SumSeq([i \in 1..Len(mine) |-> SignedVolume(mine[i])]))

_mid_price(pair) == get_mid_price(map(pair))

_min_lot_with_fallback(symbol) ==
    LET info == symbol_info(map(symbol))
    IN  IF info # None THEN info.val.volume_min ELSE MetaMinLot(symbol)

-----------------------------------------------------------------------------
(* TradingEngine._compute_usd_pairs_from_currency_exposures                *)

IsForexPair(sym) == Len(sym) = 6 /\ \A i \in 1..Len(sym) : sym[i] \in Alpha

\* a ledger whose entry is replaced by the last amount instead of summed
LedgerAdd_Overwrite(ledger, C, amt) ==
    IF \E i \in 1..Len(ledger) : ledger[i].ccy = C
    THEN [i \in 1..Len(ledger) |->
            IF ledger[i].ccy = C
            THEN [ccy |-> C, units |-> amt]
            ELSE ledger[i]]
    ELSE Append(ledger, [ccy |-> C, units |-> amt])

\* ccy_units[C] += amt on a defaultdict(float): insertion order is kept
LedgerAdd(ledger, C, amt) ==
    IF \E i \in 1..Len(ledger) : ledger[i].ccy = C
    THEN [i \in 1..Len(ledger) |->
            IF ledger[i].ccy = C
            THEN [ccy |-> C, units |-> RAdd(ledger[i].units, amt)]
            ELSE ledger[i]]
    ELSE Append(ledger, [ccy |-> C, units |-> amt])

RowStep(sym, lots, b, q, f) ==
    [symbol |-> sym, net_volume |-> lots, base_exposure |-> b,
     quote_exposure |-> q, aggregated_net_units |-> RZero,
     current_net |-> RZero, formula |-> f]

CcyStep(sym, units, net, f) ==
    [symbol |-> sym, net_volume |-> RZero, base_exposure |-> RZero,
     quote_exposure |-> RZero, aggregated_net_units |-> units,
     current_net |-> net, formula |-> f]

\* 1) accumulate currency exposures
RECURSIVE Accumulate(_, _)
Accumulate(rows, acc) ==
    IF rows = <<>> THEN acc
    ELSE
      LET sym == Head(rows).symbol
          lots == Head(rows).net_volume
      IN
      IF ~IsForexPair(sym)
      THEN Accumulate(Tail(rows),
             [acc EXCEPT !.steps = Append(@,
                RowStep(sym, lots, RZero, RZero, "N/A (non-forex)"))])
      ELSE
        LET base == SubSeq(sym, 1, 3)
            quote == SubSeq(sym, 4, 6)
            cs == _contract_size_for(sym)
            mid == _mid_price(sym)
        IN
        IF mid = None
        THEN Accumulate(Tail(rows),
               [acc EXCEPT !.steps = Append(@,
                  RowStep(sym, lots, RZero, RZero, "N/A (no mid price)"))])
        ELSE
          LET base_exp == RMul(lots, cs)
              quote_exp == RMul(RMul(RNeg(lots), cs), mid.val)
          IN  Accumulate(Tail(rows),
                [ledger |-> LedgerAdd(LedgerAdd(acc.ledger, base, base_exp),
                                      quote, quote_exp),
                 steps |-> Append(acc.steps,
                    RowStep(sym, lots, base_exp, quote_exp, ""))])

UsdRow(pair, net) == [symbol |-> pair, net_volume |-> net]

\* every currency of the ledger gets a row, its own XXXUSD when unmapped
RECURSIVE Express_EmitUnmapped(_, _)
Express_EmitUnmapped(ledger, acc) ==
    IF ledger = <<>> THEN acc
    ELSE Express_EmitUnmapped(Tail(ledger),
           [acc EXCEPT !.rows = Append(@,
              UsdRow(IF c2u(Head(ledger).ccy) = NoSymbol
                     THEN Head(ledger).ccy \o USD
                     ELSE c2u(Head(ledger).ccy),
                     Head(ledger).units))])

\* a currency whose pair has no mid price is emitted with zero net lots
RECURSIVE Express_RowWithoutPrice(_, _)
Express_RowWithoutPrice(ledger, acc) ==
    IF ledger = <<>> THEN acc
    ELSE
      LET C == Head(ledger).ccy
          net_units == Head(ledger).units
          pair == c2u(C)
      IN
      IF C = USD
      THEN Express_RowWithoutPrice(Tail(ledger),
             [acc EXCEPT !.steps = Append(@,
                CcyStep(NoSymbol, net_units, RZero, "N/A (no USD pair)"))])
      ELSE IF pair = NoSymbol
      THEN Express_RowWithoutPrice(Tail(ledger),
             [acc EXCEPT !.steps = Append(@,
                CcyStep(NoSymbol, net_units, RZero, "N/A (no USD pair)"))])
      ELSE
        LET mid == _mid_price(pair)
            cs_pair == _contract_size_for(pair)
        IN
        IF mid = None
        THEN Express_RowWithoutPrice(Tail(ledger),
               [rows |-> Append(acc.rows, UsdRow(pair, RZero)),
                steps |-> Append(acc.steps,
                   CcyStep(pair, net_units, RZero, "N/A (no mid price)"))])
        ELSE
          LET usd_base == SubSeq(pair, 1, 3) = USD
              current_net ==
                  IF usd_base
                  THEN RDiv(RNeg(net_units), RMul(cs_pair, mid.val))
                  ELSE RDiv(net_units, cs_pair)
              formula == IF usd_base THEN "-net_units / (contract_size * mid_price)"
                         ELSE "net_units / contract_size"
          IN  Express_RowWithoutPrice(Tail(ledger),
                [rows |-> IF pair \in tradable
                          THEN Append(acc.rows, UsdRow(pair, current_net))
                          ELSE acc.rows,
                 steps |-> Append(acc.steps,
                    CcyStep(pair, net_units, current_net, formula))])

\* 2) express each non-USD currency in a single USD pair
RECURSIVE Express(_, _)
Express(ledger, acc) ==
    IF ledger = <<>> THEN acc
    ELSE
      LET C == Head(ledger).ccy
          net_units == Head(ledger).units
          pair == c2u(C)
      IN
      IF C = USD
      THEN Express(Tail(ledger),
             [acc EXCEPT !.steps = Append(@,
                CcyStep(NoSymbol, net_units, RZero, "N/A (no USD pair)"))])
      ELSE IF pair = NoSymbol
      THEN Express(Tail(ledger),
             [acc EXCEPT !.steps = Append(@,
                CcyStep(NoSymbol, net_units, RZero, "N/A (no USD pair)"))])
      ELSE
        LET mid == _mid_price(pair)
            cs_pair == _contract_size_for(pair)
        IN
        IF mid = None
        THEN Express(Tail(ledger),
               [acc EXCEPT !.steps = Append(@,
                  CcyStep(pair, net_units, RZero, "N/A (no mid price)"))])
        ELSE
          LET usd_base == SubSeq(pair, 1, 3) = USD
              current_net ==
                  IF usd_base
                  THEN RDiv(RNeg(net_units), RMul(cs_pair, mid.val))
                  ELSE RDiv(net_units, cs_pair)
              formula == IF usd_base THEN "-net_units / (contract_size * mid_price)"
                         ELSE "net_units / contract_size"
          IN  Express(Tail(ledger),
                [rows |-> IF pair \in tradable
                          THEN Append(acc.rows, UsdRow(pair, current_net))
                          ELSE acc.rows,
                 steps |-> Append(acc.steps,
                    CcyStep(pair, net_units, current_net, formula))])

\* a consolidation whose ledger survives the call: once a call has run, the
\* next one starts from the units it left
_compute_usd_pairs_from_currency_exposures_KeepLedger(net_df) ==
    LET kept == IF out.steps = <<>> THEN <<>>
                ELSE Accumulate(net_df, [ledger |-> <<>>, steps |-> <<>>]).ledger
        acc == Accumulate(net_df, [ledger |-> kept, steps |-> <<>>])
    IN  Express(acc.ledger, [rows |-> <<>>, steps |-> acc.steps])

_compute_usd_pairs_from_currency_exposures(net_df) ==
    LET acc == Accumulate(net_df, [ledger |-> <<>>, steps |-> <<>>])
    IN  Express(acc.ledger, [rows |-> <<>>, steps |-> acc.steps])

\* utils.to_usd_equivalents: the manager rows as they are
to_usd_equivalents(net_df) ==
    [rows |-> [i \in 1..Len(net_df) |->
                 UsdRow(net_df[i].symbol, net_df[i].net_volume)],
     steps |-> <<>>]

-----------------------------------------------------------------------------
(* The venue: MetaTrader5.order_send as the engine sees it.  A cycle is    *)
(* run on a working copy st of the terminal and of the logs:               *)
(*   positions, orders : the terminal's books                              *)
(*   sent              : every request submitted, with the venue's answer  *)
(*   rejected, trades  : rows appended to the rejection and trade logs     *)
(*   raised            : an exception is propagating                       *)
(* accept[k] is the venue's willingness to take the k-th request of the    *)
(* cycle; the venue also refuses what would exceed the account's limits on *)
(* open positions and pending orders.                                      *)

MaxPositions == 2
MaxPending == 1

Range(f) == {f[i] : i \in DOMAIN f}

Tickets(st) == {p.ticket : p \in Range(st.positions)}
                  \cup {o.ticket : o \in Range(st.orders)}

NewTicket(st) ==
    CHOOSE t \in 1..(Cardinality(Tickets(st)) + 1) :
        /\ t \notin Tickets(st)
        /\ \A u \in 1..(t - 1) : u \in Tickets(st)

Request(action, tsym, volume, type, ticket, deviation) ==
    [action |-> action, symbol |-> tsym, volume |-> volume, type |-> type,
     position |-> ticket, deviation |-> deviation]

Remove(seq, i) == SubSeq(seq, 1, i - 1) \o SubSeq(seq, i + 1, Len(seq))

order_send(req, st, accept) ==
    LET k == Len(st.sent) + 1
        willing == IF k \in DOMAIN accept THEN accept[k] ELSE TRUE
        closing == req.action = "DEAL" /\ req.position # 0
        room == CASE closing -> TRUE
                  [] req.action = "DEAL" -> Len(st.positions) < MaxPositions
                  [] OTHER -> Len(st.orders) < MaxPending
        done == willing /\ room
        res == [retcode |-> IF done THEN "DONE" ELSE "REJECTED"]
        hit == {i \in 1..Len(st.positions) :
                   /\ st.positions[i].ticket = req.position
                   /\ st.positions[i].symbol = req.symbol}
        book ==
            IF ~done THEN [positions |-> st.positions, orders |-> st.orders]
            ELSE IF closing
            THEN [positions |-> IF hit = {} THEN st.positions
                                ELSE Remove(st.positions,
                                            CHOOSE i \in hit : TRUE),
                  orders |-> st.orders]
            ELSE IF req.action = "DEAL"
            THEN [positions |-> Append(st.positions,
                                   [symbol |-> req.symbol, type |-> req.type,
                                    volume |-> req.volume,
                                    ticket |-> NewTicket(st), profit |-> 0]),
                  orders |-> st.orders]
            ELSE [positions |-> st.positions,
                  orders |-> Append(st.orders,
                                   [symbol |-> req.symbol, type |-> req.type,
                                    volume |-> req.volume,
                                    ticket |-> NewTicket(st)])]
    IN  [res |-> res,
         st |-> [st EXCEPT !.positions = book.positions,
                           !.orders = book.orders,
                           !.sent = Append(@, [req |-> req, res |-> res])]]

-----------------------------------------------------------------------------
(* TradingEngine._send_market_or_partial_limit                             *)

Reason(text) == <<text>>

RejectedRow(symbol, reason, delta, current_pos, current_net, trend) ==
    [symbol |-> symbol, reason |-> reason, delta_position |-> delta,
     current_position |-> current_pos, current_net |-> current_net,
     trend_signal |-> trend]

\* both legs floored from the unrounded split of the volume
BuildRequests_IndependentFloor(tsym, info, side_buy, volume) ==
    LET mkt_vol == round_down_to_step(
                       RMul(volume, cfg.market_order_percentage),
                       info.volume_step)
        lim_vol == round_down_to_step(
                       RSub(volume, RMul(volume, cfg.market_order_percentage)),
                       info.volume_step)
    IN  IF ~(cfg.use_limit_orders /\ cfg.enable_partial_limit)
        THEN <<Request("DEAL", tsym, volume,
                       IF side_buy THEN "BUY" ELSE "SELL", 0, 10)>>
        ELSE (IF RGe(mkt_vol, R(info.volume_min))
              THEN <<Request("DEAL", tsym, mkt_vol,
                             IF side_buy THEN "BUY" ELSE "SELL", 0, 10)>>
              ELSE <<>>)
             \o
             (IF RGe(lim_vol, R(info.volume_min))
              THEN <<Request("PENDING", tsym, lim_vol,
                             IF side_buy THEN "BUY_LIMIT" ELSE "SELL_LIMIT",
                             0, 10)>>
              ELSE <<>>)

BuildRequests(tsym, info, side_buy, volume) ==
    IF cfg.use_limit_orders /\ cfg.enable_partial_limit
    THEN LET mkt_vol == round_down_to_step(
                            RMul(volume, cfg.market_order_percentage),
                            info.volume_step)
             lim_vol == round_down_to_step(RSub(volume, mkt_vol),
                                           info.volume_step)
         IN  (IF RGe(mkt_vol, R(info.volume_min))
              THEN <<Request("DEAL", tsym, mkt_vol,
                             IF side_buy THEN "BUY" ELSE "SELL", 0, 10)>>
              ELSE <<>>)
             \o
             (IF RGe(lim_vol, R(info.volume_min))
              THEN <<Request("PENDING", tsym, lim_vol,
                             IF side_buy THEN "BUY_LIMIT" ELSE "SELL_LIMIT",
                             0, 10)>>
              ELSE <<>>)
    ELSE <<Request("DEAL", tsym, volume,
                   IF side_buy THEN "BUY" ELSE "SELL", 0, 10)>>

\* the first rejected leg ends the submission
RECURSIVE SubmitAll_StopOnReject(_, _, _, _, _)
SubmitAll_StopOnReject(requests, symbol, side_buy, acc, accept) ==
    IF requests = <<>> THEN acc
    ELSE
      LET sent == order_send(Head(requests), acc.st, accept)
      IN  IF sent.res.retcode = "DONE"
          THEN SubmitAll_StopOnReject(Tail(requests), symbol, side_buy,
                                      [st |-> sent.st, ok |-> TRUE], accept)
          ELSE [st |-> [sent.st EXCEPT !.rejected = Append(@,
                          RejectedRow(symbol, Reason("order_send failed"),
                              RZero, RZero, RZero, ""))],
                ok |-> acc.ok]

\* all-or-nothing: a rejected leg takes the success of the others back
RECURSIVE SubmitAll_AllOrNothing(_, _, _, _, _)
SubmitAll_AllOrNothing(requests, symbol, side_buy, acc, accept) ==
    IF requests = <<>> THEN acc
    ELSE
      LET sent == order_send(Head(requests), acc.st, accept)
          rest == SubmitAll_AllOrNothing(Tail(requests), symbol, side_buy,
                      [st |-> sent.st, ok |-> TRUE], accept)
      IN  IF sent.res.retcode = "DONE" THEN rest
          ELSE [rest EXCEPT !.ok = FALSE]

RECURSIVE SubmitAll(_, _, _, _, _)
SubmitAll(requests, symbol, side_buy, acc, accept) ==
    IF requests = <<>> THEN acc
    ELSE
      LET req == Head(requests)
          sent == order_send(req, acc.st, accept)
      IN
      IF sent.res.retcode = "DONE"
      THEN SubmitAll(Tail(requests), symbol, side_buy,
                     [st |-> sent.st, ok |-> TRUE], accept)
      ELSE SubmitAll(Tail(requests), symbol, side_buy,
             [st |-> [sent.st EXCEPT !.rejected = Append(@,
                        RejectedRow(symbol, Reason("order_send failed"),
                            IF side_buy THEN req.volume ELSE RNeg(req.volume),
                            get_current_position(sent.st.positions, symbol),
                            RZero, ""))],
              ok |-> acc.ok],
             accept)

_send_market_or_partial_limit(symbol, side_buy, volume, st, accept) ==
    LET tsym == map(symbol)
        info == symbol_info(tsym)
        tick == symbol_info_tick(tsym)
    IN  IF info = None \/ tick = None
        THEN [st |-> st, ok |-> FALSE]
        ELSE SubmitAll(BuildRequests(tsym, info.val, side_buy, volume),
                       symbol, side_buy, [st |-> st, ok |-> FALSE], accept)

-----------------------------------------------------------------------------
(* TradingEngine._close_all_positions                                      *)

\* the loop over the snapshot positions_get() returned; a position whose
\* symbol has no tick makes tick.bid raise AttributeError
RECURSIVE CloseEach(_, _, _)
CloseEach(snapshot, acc, accept) ==
    IF snapshot = <<>> THEN acc
    ELSE
      LET pos == Head(snapshot)
          side_buy == pos.type = "BUY"
      IN
      IF symbol_info_tick(pos.symbol) = None
      THEN [acc EXCEPT !.st.raised = TRUE]
      ELSE
        LET sent == order_send(
                        Request("DEAL", pos.symbol, pos.volume,
                                IF side_buy THEN "SELL" ELSE "BUY",
                                pos.ticket, 20),
                        acc.st, accept)
        IN  CloseEach(Tail(snapshot),
                      [st |-> sent.st,
                       closed |-> IF sent.res.retcode = "DONE"
                                  THEN acc.closed + 1 ELSE acc.closed],
                      accept)

_close_all_positions(st, accept) ==
    IF st.positions = <<>> THEN [st |-> st, closed |-> 0]
    ELSE CloseEach(st.positions, [st |-> st, closed |-> 0], accept)

-----------------------------------------------------------------------------
(* TradingEngine.cycle                                                     *)

RECURSIVE SumInt(_)
SumInt(s) == IF s = <<>> THEN 0 ELSE Head(s) + SumInt(Tail(s))

_todays_realized_pnl == IF deals = <<>> THEN 0 ELSE SumInt(deals)

\* a guard that never trips
_check_daily_loss_NoGuard ==
    [ok |-> TRUE, realized |-> _todays_realized_pnl]

\* a guard that stays tripped once every cycle so far has tripped it
_check_daily_loss_Latched ==
    [ok |-> _todays_realized_pnl >= cfg.daily_loss_limit
            /\ earlier # "breach",
     realized |-> _todays_realized_pnl]

_check_daily_loss ==
    LET realized == _todays_realized_pnl
        limit == cfg.daily_loss_limit
    IN  [ok |-> realized >= limit, realized |-> realized]

\* f"{x:.2f}" of a volume in lots: the nearest centi-lot
Fmt2(x) == Round2(x)

Capitalize(trend) ==
    CASE trend = "up" -> "Up"
      [] trend = "down" -> "Down"
      [] OTHER -> "Neutral"

PairRow(r) == ("Symbol" :> r.symbol) @@ ("Net Position" :> r.net_volume)

GuiRow(symbol, current_net, current_pos, target, delta, trend, reason, pnl) ==
    ("Symbol" :> symbol) @@ ("Net USD Position" :> Fmt2(current_net))
    @@ ("Trade Position" :> Fmt2(current_pos))
    @@ ("Target Position" :> Fmt2(target))
    @@ ("Trade Delta" :> Fmt2(delta)) @@ ("Trend" :> Capitalize(trend))
    @@ ("Reason" :> reason) @@ ("PNL" :> pnl)

TradeRow(symbol, delta, current_net, target, current_pos, trend, reason) ==
    [symbol |-> symbol, terminal_symbol |-> map(symbol),
     trade_type |-> IF RGt(delta, RZero) THEN "BUY" ELSE "SELL",
     requested_volume |-> RAbs(delta), executed_volume |-> RAbs(delta),
     current_net |-> current_net, target_position |-> target,
     current_position |-> current_pos, delta_position |-> delta,
     trend_signal |-> trend, reason |-> reason]

\* a gate that knows the neutral rule only
Allow_NeutralOnly(trend, target, current_pos) ==
    ~(trend = "neutral" /\ ~cfg.allow_trades_on_neutral_trend)

\* the trend gate of the sizing loop
Allow(trend, target, current_pos) ==
    ~ \/ trend = "neutral" /\ ~cfg.allow_trades_on_neutral_trend
      \/ trend = "down" /\ RGt(target, current_pos)
                        /\ ~cfg.allow_trades_on_opposite_trend
      \/ trend = "up" /\ RLt(target, current_pos)
                      /\ ~cfg.allow_trades_on_opposite_trend

\* no clamp at all
WithinMaxPosition_NoClamp(current_pos, delta) == TRUE

\* the clamp of the sizing loop: TRUE when the new position is within bounds
WithinMaxPosition(current_pos, delta) ==
    LET new_pos == RAdd(current_pos,
                        IF RGt(delta, RZero) THEN RAbs(delta)
                        ELSE RNeg(RAbs(delta)))
    IN  ~RGt(RAbs(new_pos), R(cfg.max_position_size))

\* the end of one iteration: the logs, the per-symbol PnL and the GUI row
\* (exec is what the executor returned, or the untouched books when the
\* decision sent nothing)
RecordRow(row, acc, trend, current_pos, target, min_lot, delta, allow, reason, rejected, exec) ==
    LET symbol == row.symbol
        current_net == row.net_volume
        logged ==
            IF rejected
            THEN [exec.st EXCEPT !.rejected = Append(@,
                    RejectedRow(symbol, reason, delta, current_pos,
                                current_net, trend))]
            ELSE IF exec.ok
            THEN [exec.st EXCEPT !.trades = Append(@,
                    TradeRow(symbol, delta, current_net, target, current_pos,
                             trend, reason))]
            ELSE exec.st
        sym_positions == PositionsOf(logged.positions, map(symbol))
        sym_pnl == SumInt([i \in 1..Len(sym_positions) |->
                             sym_positions[i].profit])
    IN  [st |-> logged,
         trades_executed |-> IF exec.ok THEN acc.trades_executed + 1
                             ELSE acc.trades_executed,
         gui_usd_rows |-> Append(acc.gui_usd_rows,
             GuiRow(symbol, current_net, current_pos, target, delta, trend,
                    reason, sym_pnl)),
         decisions |-> Append(acc.decisions,
             [symbol |-> symbol, current_net |-> current_net,
              current_pos |-> current_pos, target |-> target,
              min_lot |-> min_lot, delta |-> delta, trend |-> trend,
              allow |-> allow, reason |-> reason, executed |-> exec.ok,
              first_order |-> Len(acc.st.sent) + 1,
              last_order |-> Len(exec.st.sent)])]

\* an executed branch that reports success whatever the executor answered
ExecuteRow_AlwaysExecuted(row, acc, trend, current_pos, target, min_lot, delta, allow, exec) ==
    RecordRow(row, acc, trend, current_pos, target, min_lot, delta, allow,
              Reason("Trade executed"), FALSE, exec)

\* the executed branch: the order goes out and its answer names the reason
ExecuteRow(row, acc, trend, current_pos, target, min_lot, delta, allow, exec) ==
    RecordRow(row, acc, trend, current_pos, target, min_lot, delta, allow,
              IF exec.ok THEN Reason("Trade executed")
              ELSE Reason("Trade failed"),
              FALSE, exec)

\* the if / elif / else chain on the rounded delta
GateRow(row, acc, accept, trend, current_pos, target, min_lot, delta) ==
    LET allow == Allow(trend, target, current_pos)
        idle == [st |-> acc.st, ok |-> FALSE]
    IN  IF RLt(RAbs(delta), R(min_lot))
        THEN RecordRow(row, acc, trend, current_pos, target, min_lot, delta,
                       allow, <<"Delta too small: ", Fmt2(delta)>>, FALSE,
                       idle)
        ELSE IF ~allow
        THEN RecordRow(row, acc, trend, current_pos, target, min_lot, delta,
                       allow, Reason("Trade conditions not met"), TRUE, idle)
        ELSE IF ~WithinMaxPosition(current_pos, delta)
        THEN RecordRow(row, acc, trend, current_pos, target, min_lot, delta,
                       allow, Reason("Exceeds max position size"), TRUE, idle)
        ELSE ExecuteRow(row, acc, trend, current_pos, target, min_lot, delta,
                        allow,
                        _send_market_or_partial_limit(
                            row.symbol, RGt(delta, RZero), RAbs(delta),
                            acc.st, accept))

\* target and delta of a row, the delta rounded down to the minimum lot
SizeRow(row, acc, accept, trend, current_pos, target, min_lot) ==
    GateRow(row, acc, accept, trend, current_pos, target, min_lot,
            round_down_to_step(RSub(target, current_pos), min_lot))

\* sizing that follows the clients' exposure instead of mirroring it
DecideRow_FollowExposure(row, acc, accept, trendOf) ==
    SizeRow(row, acc, accept, trendOf[row.symbol],
            get_current_position(acc.st.positions, row.symbol),
            RMul(row.net_volume,
                 IF cfg.use_fixed_multiplier THEN cfg.fixed_multiplier
                 ELSE cfg.trade_size_multiplier),
            _min_lot_with_fallback(row.symbol))

\* one iteration of "for _, row in usd_df.iterrows()"
DecideRow(row, acc, accept, trendOf) ==
    SizeRow(row, acc, accept, trendOf[row.symbol],
            get_current_position(acc.st.positions, row.symbol),
            RMul(RNeg(row.net_volume),
                 IF cfg.use_fixed_multiplier THEN cfg.fixed_multiplier
                 ELSE cfg.trade_size_multiplier),
            _min_lot_with_fallback(row.symbol))

\* a loop that gives up on the rest of the rows once a symbol's trade failed
RECURSIVE Decide_StopOnFailure(_, _, _, _)
Decide_StopOnFailure(rows, acc, accept, trendOf) ==
    IF rows = <<>> THEN acc
    ELSE IF acc.decisions # <<>>
            /\ acc.decisions[Len(acc.decisions)].reason = Reason("Trade failed")
    THEN acc
    ELSE Decide_StopOnFailure(Tail(rows),
             DecideRow(Head(rows), acc, accept, trendOf), accept, trendOf)

RECURSIVE Decide(_, _, _, _)
Decide(rows, acc, accept, trendOf) ==
    IF rows = <<>> THEN acc
    ELSE Decide(Tail(rows), DecideRow(Head(rows), acc, accept, trendOf),
                accept, trendOf)

NoPayload == [none |-> TRUE]

NoCycle ==
    [outcome |-> "none", path |-> "none", payload |-> NoPayload,
     before |-> <<>>, sent |-> <<>>, rejected |-> <<>>, trades |-> <<>>,
     decisions |-> <<>>, rows |-> <<>>, steps |-> <<>>, realized |-> 0,
     total_trades |-> 0, closed |-> 0, unrealized |-> 0]

Observed(outcome, path, payload, st, acc, cons, realized, total_trades) ==
    [outcome |-> outcome, path |-> path, payload |-> payload,
     before |-> positions, sent |-> st.sent, rejected |-> st.rejected,
     trades |-> st.trades, decisions |-> acc.decisions, rows |-> cons.rows,
     steps |-> cons.steps, realized |-> realized,
     total_trades |-> total_trades, closed |-> 0, unrealized |-> 0]

\* the books a cycle starts from and the accumulators of its loop
StartBooks ==
    [positions |-> positions, orders |-> orders, sent |-> <<>>,
     rejected |-> <<>>, trades |-> <<>>, raised |-> FALSE]

StartAcc ==
    [st |-> StartBooks, trades_executed |-> 0, gui_usd_rows |-> <<>>,
     decisions |-> <<>>]

NoRows == [rows |-> <<>>, steps |-> <<>>]

\* "if df.empty": the early return
EmptyCycle ==
    [st |-> StartBooks,
     out |-> Observed("returned", "empty",
                 [usd_rows |-> <<>>, pair_rows |-> <<>>,
                  trades_executed |-> 0],
                 StartBooks, StartAcc, NoRows, 0, 0)]

\* a breach payload that carries no status
BreachedCycle_NoStatus(pair_rows, cons, realized, closing) ==
    [st |-> closing.st,
     out |-> [Observed("returned", "breach",
                  [usd_rows |-> <<>>, pair_rows |-> pair_rows,
                   trades_executed |-> 0],
                  closing.st, StartAcc, cons, realized, 0)
                EXCEPT !.closed = closing.closed]]

\* the risk-guard branch, after the optional auto-close
BreachedCycle(pair_rows, cons, realized, closing) ==
    IF closing.st.raised
    THEN [st |-> closing.st,
          out |-> [Observed("raised", "breach", NoPayload, closing.st,
                       StartAcc, cons, realized, 0)
                     EXCEPT !.closed = closing.closed]]
    ELSE [st |-> closing.st,
          out |-> [Observed("returned", "breach",
                       [usd_rows |-> <<>>, pair_rows |-> pair_rows,
                        trades_executed |-> 0,
                        status |-> "RISK GUARD: daily loss breached"],
                       closing.st, StartAcc, cons, realized, 0)
                     EXCEPT !.closed = closing.closed]]

\* a cycle that reports no trade whatever it executed
CompletedCycle_NoCount(pair_rows, cons, realized, acc) ==
    [st |-> acc.st,
     out |-> Observed("returned", "normal",
                 [usd_rows |-> acc.gui_usd_rows, pair_rows |-> pair_rows,
                  trades_executed |-> 0],
                 acc.st, acc, cons, realized, 0)]

\* the end of a full cycle: the daily summary and the returned payload
CompletedCycle(pair_rows, cons, realized, acc) ==
    [st |-> acc.st,
     out |-> Observed("returned", "normal",
                 [usd_rows |-> acc.gui_usd_rows, pair_rows |-> pair_rows,
                  trades_executed |-> acc.trades_executed],
                 acc.st, acc, cons, realized, acc.trades_executed)]

\* the account metrics a cycle logs hold the floating P&L it read
Metrics(result, unreal) == [result EXCEPT !.out.unrealized = unreal]

\* a guard that counts the floating P&L as a loss of the day
GuardedCycle_CountsUnrealized(accept, trendOf, pair_rows, cons, risk, unreal) ==
    IF ~(risk.realized + unreal >= cfg.daily_loss_limit)
    THEN Metrics(BreachedCycle(pair_rows, cons, risk.realized,
             IF cfg.auto_close_on_daily_loss_limit
             THEN _close_all_positions(StartBooks, accept)
             ELSE [st |-> StartBooks, closed |-> 0]), unreal)
    ELSE Metrics(CompletedCycle(pair_rows, cons, risk.realized,
             Decide(cons.rows, StartAcc, accept, trendOf)), unreal)

\* steps 3 and 4 of cycle(): the risk guard, then the sizing loop; unreal is
\* account_info().profit as _unrealized_pnl() reads it
GuardedCycle(accept, trendOf, pair_rows, cons, risk, unreal) ==
    IF ~risk.ok
    THEN Metrics(BreachedCycle(pair_rows, cons, risk.realized,
             IF cfg.auto_close_on_daily_loss_limit
             THEN _close_all_positions(StartBooks, accept)
             ELSE [st |-> StartBooks, closed |-> 0]), unreal)
    ELSE Metrics(CompletedCycle(pair_rows, cons, risk.realized,
             Decide(cons.rows, StartAcc, accept, trendOf)), unreal)

\* a cycle that runs the risk guard before it looks at the feed
cycle_RiskFirst(accept, trendOf, unreal) ==
    IF feed = <<>> /\ _check_daily_loss.ok THEN EmptyCycle
    ELSE GuardedCycle(accept, trendOf,
             [i \in 1..Len(feed) |-> PairRow(feed[i])],
             IF cfg.consolidate_to_usd
             THEN _compute_usd_pairs_from_currency_exposures(feed)
             ELSE to_usd_equivalents(feed),
             _check_daily_loss, unreal)

\* cycle() on the terminal as it stands; the result holds the terminal's
\* books after the cycle (st) and what the cycle returned and logged (out)
cycle(accept, trendOf, unreal) ==
    IF feed = <<>> THEN EmptyCycle
    ELSE GuardedCycle(accept, trendOf,
             [i \in 1..Len(feed) |-> PairRow(feed[i])],
             IF cfg.consolidate_to_usd
             THEN _compute_usd_pairs_from_currency_exposures(feed)
             ELSE to_usd_equivalents(feed),
             _check_daily_loss, unreal)

-----------------------------------------------------------------------------
(* Inputs of a cycle and the environment around it.                        *)

Trends == {"up", "down", "neutral"}

\* the manager reports each symbol at most once, in a fixed order
FeedOrder == <<EURUSD, EURJPY, XAUUSD, US30>>

\* net client lots (centi-lots) a symbol may be reported with
FeedNets(i) ==
    CASE i = 1 -> {-200, 0, 35000}
      [] i = 2 -> {3}
      [] i = 3 -> {400}
      [] OTHER -> {100}

\* the most rows a feed holds
MaxRows == 2

RECURSIVE FeedsFrom(_)
FeedsFrom(i) ==
    IF i > Len(FeedOrder) THEN {<<>>}
    ELSE LET rest == FeedsFrom(i + 1)
         IN  rest \cup {<<[symbol |-> FeedOrder[i], net_volume |-> R(v)]>> \o r :
                           v \in FeedNets(i), r \in rest}

Feeds == {f \in FeedsFrom(1) : Len(f) <= MaxRows}

DealsChoices == {<<>>, <<-2000, -3000>>, <<-6000>>}

\* the account's floating P&L a cycle may read
UnrealizedChoices == {0, -9000}

OfflineChoices == {{}, {map(EURUSD)}}

\* the symbols the sizing loop will ask a trend for
RowSymbols ==
    LET rows == IF cfg.consolidate_to_usd
                THEN _compute_usd_pairs_from_currency_exposures(feed).rows
                ELSE to_usd_equivalents(feed).rows
    IN  {rows[i].symbol : i \in 1..Len(rows)}

\* the number of requests a cycle submits does not depend on the answers
Submitted(trendOf) == Len(cycle(<<>>, trendOf, 0).out.sent)

\* the feed and the multiplier of test_engine_cycle_executes_when_allowed
EndToEndFeed ==
    <<[symbol |-> XAUUSD, net_volume |-> R(400)],
      [symbol |-> EURUSD, net_volume |-> R(-200)]>>

EndToEndConfigs ==
    {[DefaultConfig EXCEPT !.trade_size_multiplier = Rat(5, 100),
                           !.consolidate_to_usd = c] : c \in BOOLEAN}

\* The split configuration multiplies the orders of a row, so it is explored
\* over the feeds of at most one row (a EURJPY row still consolidates into
\* two USD pairs); every other configuration is explored over all feeds;
\* the end-to-end test's multiplier is explored over that test's feed.
Scenarios ==
    {[cfg |-> c, feed |-> EndToEndFeed] : c \in EndToEndConfigs}
    \cup
    {[cfg |-> c, feed |-> f] : c \in {k \in Configs : ~k.use_limit_orders},
                               f \in Feeds}
    \cup
    {[cfg |-> c, feed |-> f] : c \in {k \in Configs : k.use_limit_orders},
                               f \in {g \in Feeds : Len(g) <= 1}}

\* no call of round_down_to_step under way
NoCall ==
    [pc |-> "idle", lots |-> 0, lot_step |-> 0, x |-> FZero, step |-> FZero,
     units |-> 0, ret |-> FZero]

\* the driver taken as a whole: Cycle and Sleep stand for its loop
NoDriver ==
    [kind |-> "none", once |-> FALSE, pc |-> "exited", timers |-> 0,
     inflight |-> 0]

\* the positions the terminal holds when the engine starts: none, or a
\* position left from before: a small one where the manager reports
\* nothing, one beyond max_position_size where the exposure is beyond it too
StartPositions(f) ==
    IF f = <<>>
    THEN {<<>>, <<[symbol |-> map(EURUSD), type |-> "BUY", volume |-> R(200),
                   ticket |-> 1, profit |-> 0]>>}
    ELSE IF f = <<[symbol |-> EURUSD, net_volume |-> R(35000)]>>
    THEN {<<>>, <<[symbol |-> map(EURUSD), type |-> "SELL",
                   volume |-> R(40000), ticket |-> 1, profit |-> 0]>>}
    ELSE {<<>>}

Init ==
    /\ \E s \in Scenarios :
         cfg = s.cfg /\ feed = s.feed /\ positions \in StartPositions(s.feed)
    /\ deals = <<>>
    /\ offline = {}
    /\ orders = <<>>
    /\ out = NoCycle
    /\ earlier = "none"
    /\ calc = NoCall
    /\ driver = NoDriver

\* the market's trend at the time of a cycle: what compute_trend_metrics
\* answers for each symbol
TrendInputs == {[s \in RowSymbols |-> t] : t \in Trends}

\* the terminal and the logs after a cycle that ended with r
Returned(r) ==
    /\ positions' = r.st.positions
    /\ orders' = r.st.orders
    /\ out' = r.out
    /\ UNCHANGED <<cfg, feed, deals, offline, earlier, calc>>

\* the driver (run_headless, the GUI timer) calls engine.cycle()
Cycle ==
    /\ out = NoCycle
    /\ \E trendOf \in TrendInputs :
      \E accept \in [1..Submitted(trendOf) -> BOOLEAN] :
        \E unreal \in UnrealizedChoices :
          Returned(cycle(accept, trendOf, unreal))
    /\ UNCHANGED driver

\* how the cycles up to the last one ended
Past ==
    IF out = NoCycle THEN earlier
    ELSE IF out.path = "breach" /\ earlier # "other" THEN "breach"
    ELSE "other"

\* the driver logs or displays the payload and sleeps until the next cycle
Sleep ==
    /\ out # NoCycle
    /\ out' = NoCycle
    /\ earlier' = Past
    /\ UNCHANGED <<cfg, feed, deals, offline, positions, orders, calc, driver>>

\* today's deal history changes (a loss is realized, a new day starts)
DealsChange ==
    /\ out = NoCycle
    /\ \E d \in DealsChoices \ {deals} :
        /\ deals' = d
        /\ UNCHANGED <<cfg, feed, offline, positions, orders, out, earlier, calc,
                       driver>>

\* the terminal loses or regains a symbol's market data
QuotesChange ==
    /\ out = NoCycle
    /\ \E o \in OfflineChoices \ {offline} :
        /\ offline' = o
        /\ UNCHANGED <<cfg, feed, deals, positions, orders, out, earlier, calc,
                       driver>>

\* the market reaches a pending limit order: it becomes a position
PendingFill ==
    /\ out = NoCycle
    /\ \E i \in 1..Len(orders) :
        /\ Len(positions) < MaxPositions
        /\ positions' = Append(positions,
              [symbol |-> orders[i].symbol,
               type |-> IF orders[i].type = "BUY_LIMIT" THEN "BUY" ELSE "SELL",
               volume |-> orders[i].volume, ticket |-> orders[i].ticket,
               profit |-> 0])
        /\ orders' = Remove(orders, i)
        /\ UNCHANGED <<cfg, feed, deals, offline, out, earlier, calc, driver>>

Next == Cycle \/ Sleep \/ DealsChange \/ QuotesChange \/ PendingFill

Spec == Init /\ [][Next]_vars

-----------------------------------------------------------------------------
(* round_down_to_step(x, step) statement by statement on doubles, for the  *)
(* volumes and lot steps the terminal quotes: two-decimal literals.        *)

MaxCentiLots == 50

\* volume_step of the terminal's symbols, in centi-lots; 0 stands for the
\* step the function's first guard turns away
LotSteps == {0, 1, 5, 10}

Called(lots, lot_step) ==
    [pc |-> "called", lots |-> lots, lot_step |-> lot_step,
     x |-> FLiteral(lots, 100), step |-> FLiteral(lot_step, 100),
     units |-> 0, ret |-> FZero]

InitRounding ==
    /\ cfg = DefaultConfig
    /\ feed = <<>>
    /\ deals = <<>>
    /\ offline = {}
    /\ positions = <<>>
    /\ orders = <<>>
    /\ out = NoCycle
    /\ earlier = "none"
    /\ driver = NoDriver
    /\ \E lots \in -MaxCentiLots..MaxCentiLots : \E lot_step \in LotSteps :
         calc = Called(lots, lot_step)

Engine == <<cfg, feed, deals, offline, positions, orders, out, earlier, driver>>

\* the guards and units = math.floor(ax / step)
FloorUnits ==
    /\ calc.pc = "called"
    /\ calc' =
         IF calc.step.m = <<>> \/ calc.step.neg
         THEN [calc EXCEPT !.pc = "returned", !.ret = calc.x]
         ELSE IF FCmpAbs(calc.x, calc.step) < 0
         THEN [calc EXCEPT !.pc = "returned", !.ret = FZero]
         ELSE [calc EXCEPT !.pc = "floored",
                           !.units = FFloor(FDiv(calc.x, calc.step))]
    /\ UNCHANGED Engine

\* val = units * step; return val if x >= 0 else -val
ScaleBack ==
    /\ calc.pc = "floored"
    /\ calc' =
         [calc EXCEPT !.pc = "returned",
                      !.ret = IF calc.x.neg
                              THEN FNeg(FMulInt(calc.units, calc.step))
                              ELSE FMulInt(calc.units, calc.step)]
    /\ UNCHANGED Engine

NextRounding == FloorUnits \/ ScaleBack

SpecRounding == InitRounding /\ [][NextRounding]_vars

-----------------------------------------------------------------------------
(* The sizing of one symbol over successive cycles, on doubles: unchanged  *)
(* exposure, multiplier 1, a permissive gate, no breach, one market order  *)
(* per trade and a venue that fills every order in full.                   *)

MaxTarget == 60
MaxCycles == 3

\* the first cycle sizes target - 0.0: there is no position yet
Sizing(lots, lot_step) ==
    [pc |-> "called", lots |-> lots, lot_step |-> lot_step,
     x |-> FLiteral(lots, 100), step |-> FLiteral(lot_step, 100),
     units |-> 0, ret |-> FZero, cycle |-> 1, target |-> FLiteral(lots, 100),
     held |-> <<>>, current_pos |-> FZero, traded |-> FALSE]

InitConverge ==
    /\ cfg = DefaultConfig
    /\ feed = <<>>
    /\ deals = <<>>
    /\ offline = {}
    /\ positions = <<>>
    /\ orders = <<>>
    /\ out = NoCycle
    /\ earlier = "none"
    /\ driver = NoDriver
    /\ \E lots \in -MaxTarget..MaxTarget : \E lot_step \in LotSteps \ {0} :
         calc = Sizing(lots, lot_step)

\* the if / elif / else chain on the rounded delta: too small, or a market
\* order for |delta| that the venue fills; the position holds its volume
Execute ==
    /\ calc.pc = "returned" /\ calc.cycle < MaxCycles
    /\ calc' =
         IF FCmpAbs(calc.ret, calc.step) < 0
         THEN [calc EXCEPT !.pc = "slept", !.traded = FALSE]
         ELSE [calc EXCEPT !.pc = "slept", !.traded = TRUE,
                           !.held = Append(@, calc.ret)]
    /\ UNCHANGED Engine

\* the next cycle: current_pos = get_current_position(symbol)
ReadPosition ==
    /\ calc.pc = "slept"
    /\ calc' =
         [calc EXCEPT !.pc = "read", !.cycle = @ + 1,
            !.current_pos = IF calc.held = <<>> THEN FZero
                            ELSE FRound2(FSumFrom(calc.held, FZero))]
    /\ UNCHANGED Engine

\* delta = target - current_pos, handed to round_down_to_step
Resize ==
    /\ calc.pc = "read"
    /\ calc' = [calc EXCEPT !.pc = "called", !.units = 0, !.ret = FZero,
                            !.x = FSub(calc.target, calc.current_pos)]
    /\ UNCHANGED Engine

NextConverge == FloorUnits \/ ScaleBack \/ Execute \/ ReadPosition \/ Resize

SpecConverge == InitConverge /\ [][NextConverge]_vars

-----------------------------------------------------------------------------
(* TradingEngine._send_market_or_partial_limit on doubles, for a symbol    *)
(* whose info and tick are available: the legs it builds for an approved   *)
(* volume of k lot steps.                                                  *)

MaxUnits == 45

\* market_order_percentage, in tenths
Percentages == {0, 2, 5, 8, 10}

\* a * b as the hardware rounds it
FMul(a, b) ==
    IF a.m = <<>> \/ b.m = <<>> THEN FZero
    ELSE [FRound(BMul(a.m, b.m), <<1>>, a.e + b.e)
            EXCEPT !.neg = (a.neg # b.neg)]

\* the call: volume is |delta|, k times the lot step; split says whether
\* use_limit_orders and enable_partial_limit are both set
SendCalled(k, lot_step, tenths, split) ==
    [pc |-> "entered", lots |-> k * lot_step, lot_step |-> lot_step,
     volume |-> FMulInt(k, FLiteral(lot_step, 100)),
     pct |-> FLiteral(tenths, 10), tenths |-> tenths, split |-> split,
     x |-> FZero, step |-> FLiteral(lot_step, 100), units |-> 0,
     ret |-> FZero, leg |-> "none", mkt_vol |-> FZero, mkt_units |-> 0,
     requests |-> <<>>]

InitSplit ==
    /\ cfg = DefaultConfig
    /\ feed = <<>>
    /\ deals = <<>>
    /\ offline = {}
    /\ positions = <<>>
    /\ orders = <<>>
    /\ out = NoCycle
    /\ earlier = "none"
    /\ driver = NoDriver
    /\ \E k \in 1..MaxUnits : \E lot_step \in LotSteps \ {0} :
         \/ \E tenths \in Percentages :
               calc = SendCalled(k, lot_step, tenths, TRUE)
         \/ calc = SendCalled(k, lot_step, 8, FALSE)

\* mkt_vol = round_down_to_step(volume * market_order_percentage, step):
\* the argument
MarketShare ==
    /\ calc.pc = "entered" /\ calc.split
    /\ calc' = [calc EXCEPT !.pc = "called", !.leg = "market",
                            !.x = FMul(calc.volume, calc.pct)]
    /\ UNCHANGED Engine

\* lim_vol = round_down_to_step(volume - mkt_vol, step): the argument
LimitRest ==
    /\ calc.pc = "returned" /\ calc.leg = "market"
    /\ calc' = [calc EXCEPT !.pc = "called", !.leg = "limit",
                            !.mkt_vol = calc.ret, !.mkt_units = calc.units,
                            !.units = 0, !.ret = FZero,
                            !.x = FSub(calc.volume, calc.ret)]
    /\ UNCHANGED Engine

\* a leg joins the requests when its volume reaches volume_min
Leg(action, volume, units, volume_min) ==
    IF ~volume.neg /\ FCmpAbs(volume, volume_min) >= 0
    THEN <<[action |-> action, volume |-> volume, units |-> units]>>
    ELSE <<>>

\* the two "if ... >= info.volume_min" and the loop that sends the requests
SendLegs ==
    /\ calc.pc = "returned" /\ calc.leg = "limit"
    /\ calc' = [calc EXCEPT !.pc = "sent",
                  !.requests = Leg("DEAL", calc.mkt_vol, calc.mkt_units,
                                   calc.step)
                               \o Leg("PENDING", calc.ret, calc.units,
                                      calc.step)]
    /\ UNCHANGED Engine

\* the else branch: one market order for the volume
SendWhole ==
    /\ calc.pc = "entered" /\ ~calc.split
    /\ calc' = [calc EXCEPT !.pc = "sent",
                  !.requests = <<[action |-> "DEAL", volume |-> calc.volume,
                                  units |-> 0]>>]
    /\ UNCHANGED Engine

NextSplit ==
    \/ MarketShare \/ FloorUnits \/ ScaleBack \/ LimitRest \/ SendLegs
    \/ SendWhole

SpecSplit == InitSplit /\ [][NextSplit]_vars

-----------------------------------------------------------------------------
(* indicators.compute_trend_metrics(symbol, closes) statement by statement. *)
(* Prices are in ticks of 0.000005; the moving averages are exact.  The    *)
(* values of RSI and MACD are not modelled, only whether they are present. *)

short_sma_period == 10
long_sma_period == 50
rsi_period == 14
macd_fast == 12
macd_slow == 26
macd_signal == 9

\* CONFIG["indicators"].get("neutral_trend_threshold", 0.0): the shipped
\* 0.0001 (20 ticks) and the default 0.0
NeutralEps == {0, 20}

Max(a, b) == IF a >= b THEN a ELSE b

NaN == [nan |-> TRUE, v |-> 0]
Close(v) == [nan |-> FALSE, v |-> v]

\* the longest close history
MaxBars == 52

\* the lengths explored: empty, around the short and around the long window
BarCounts == {0, 9, 10, 49, 50, 51, MaxBars}

\* how far the last short_sma_period closes lie above the ones before
Moves == {-26, -25, -24, -1, 0, 1, 24, 25, 26}

BasePrice == 1000

\* a history of n closes: flat at BasePrice, then the last short_sma_period
\* closes at BasePrice + move; gap puts a NaN bar before the last close
Bars(n, move, gap) ==
    LET flat == [i \in 1..n |->
                   Close(IF i > n - short_sma_period THEN BasePrice + move
                         ELSE BasePrice)]
    IN  IF gap /\ n > 0
        THEN SubSeq(flat, 1, n - 1) \o <<NaN, flat[n]>>
        ELSE flat

\* pd.Series(...).dropna()
dropna(s) == SelectSeq(s, LAMBDA c : ~c.nan)

_series_from_iter(closes) == dropna(closes)

\* rates None or empty -> an empty series
_fetch_closes(rates) == IF rates = None THEN <<>> ELSE dropna(rates.val)

\* s.rolling(n, min_periods=max(2, n // 2)).mean().iloc[-1]
_sma(s, n) ==
    LET window == SubSeq(s, Max(1, Len(s) - n + 1), Len(s))
    IN  IF Len(window) < Max(2, n \div 2) THEN None
        ELSE Some(Rat(SumInt([i \in 1..Len(window) |-> window[i].v]),
                      Len(window)))

Present == [some |-> TRUE]

_rsi(s, n) == IF Len(s) < Max(5, n) THEN None ELSE Present

_macd(s, fast, slow, signal) ==
    IF Len(s) < Max(Max(fast, slow), signal) + 2 THEN None ELSE Present

TrendMetrics(trend, sma_diff, rsi, macd) ==
    [trend |-> trend, sma_diff |-> sma_diff, rsi |-> rsi, macd |-> macd]

\* a classification that takes the threshold itself for a trend
Trend_Inclusive(sma_diff, neutral_eps) ==
    IF RGe(sma_diff, R(neutral_eps)) THEN "up"
    ELSE IF RLe(sma_diff, R(-neutral_eps)) THEN "down"
    ELSE "neutral"

\* "Determine trend"
Trend(sma_diff, neutral_eps) ==
    IF RGt(sma_diff, R(neutral_eps)) THEN "up"
    ELSE IF RLt(sma_diff, R(-neutral_eps)) THEN "down"
    ELSE "neutral"

\* compute_trend_metrics is called: closes is the argument (None: the bars
\* are fetched from the terminal, whose answer is rates)
TrendCalled(closes, rates, neutral_eps) ==
    [pc |-> "called", closes |-> closes, rates |-> rates,
     neutral_eps |-> neutral_eps, s |-> <<>>, sma_diff |-> RZero,
     ret |-> None]

Histories ==
    {Bars(n, move, gap) : n \in BarCounts, move \in Moves, gap \in BOOLEAN}

InitTrend ==
    /\ cfg = DefaultConfig
    /\ feed = <<>>
    /\ deals = <<>>
    /\ offline = {}
    /\ positions = <<>>
    /\ orders = <<>>
    /\ out = NoCycle
    /\ earlier = "none"
    /\ driver = NoDriver
    /\ \E h \in Histories : \E neutral_eps \in NeutralEps :
         \/ calc = TrendCalled(Some(h), None, neutral_eps)
         \/ calc = TrendCalled(None, Some(h), neutral_eps)
         \/ calc = TrendCalled(None, None, neutral_eps)

\* the series, the guard on its length and the difference of the averages
Measure ==
    /\ calc.pc = "called"
    /\ LET s == IF calc.closes # None THEN _series_from_iter(calc.closes.val)
                ELSE _fetch_closes(calc.rates)
       IN  calc' =
             IF Len(s) < Max(short_sma_period, long_sma_period)
             THEN [calc EXCEPT !.pc = "returned", !.s = s,
                     !.ret = Some(TrendMetrics("neutral", RZero, None, None))]
             ELSE [calc EXCEPT !.pc = "measured", !.s = s,
                     !.sma_diff = RSub(_sma(s, short_sma_period).val,
                                       _sma(s, long_sma_period).val)]
    /\ UNCHANGED Engine

\* the trend, the oscillators and the return
Classify ==
    /\ calc.pc = "measured"
    /\ calc' =
         [calc EXCEPT !.pc = "returned",
            !.ret = Some(TrendMetrics(
                        Trend(calc.sma_diff, calc.neutral_eps),
                        calc.sma_diff,
                        _rsi(calc.s, rsi_period),
                        _macd(calc.s, macd_fast, macd_slow, macd_signal)))]
    /\ UNCHANGED Engine

NextTrend == Measure \/ Classify

SpecTrend == InitTrend /\ [][NextTrend]_vars

-----------------------------------------------------------------------------
(* The drivers statement by statement: main.run_headless and gui.run_gui.  *)
(* A call of engine.cycle() begins, is in flight, and ends by returning or *)
(* raising; its effect on the terminal is that of cycle().                 *)

\* one-row feeds under the configuration that closes positions on a breach
InitDrivers ==
    /\ cfg = [DefaultConfig EXCEPT !.auto_close_on_daily_loss_limit = TRUE]
    /\ feed \in {f \in Feeds : Len(f) <= 1}
    /\ deals = <<>>
    /\ offline = {}
    /\ positions = <<>>
    /\ orders = <<>>
    /\ out = NoCycle
    /\ earlier = "none"
    /\ calc = NoCall
    /\ driver \in
         {[kind |-> "headless", once |-> o, pc |-> "loop", timers |-> 0,
           inflight |-> 0] : o \in BOOLEAN}
         \cup {[kind |-> "gui", once |-> FALSE, pc |-> "start", timers |-> 0,
                inflight |-> 0]}

\* the call in flight ends: the terminal and the logs are as cycle() left them
CycleEnds ==
    \E trendOf \in TrendInputs :
      \E accept \in [1..Submitted(trendOf) -> BOOLEAN] :
        \E unreal \in UnrealizedChoices :
          Returned(cycle(accept, trendOf, unreal))

\* run_headless: "out = engine.cycle()" is entered
HeadlessCall ==
    /\ driver.kind = "headless" /\ driver.pc = "loop"
    /\ driver' = [driver EXCEPT !.pc = "cycle", !.inflight = @ + 1]
    /\ UNCHANGED <<cfg, feed, deals, offline, positions, orders, out, earlier,
                   calc>>

\* the call returns, or raises into "except Exception: ... raise"
HeadlessEnd ==
    /\ driver.kind = "headless" /\ driver.pc = "cycle"
    /\ CycleEnds
    /\ driver' = [driver EXCEPT !.inflight = @ - 1,
                    !.pc = IF out'.outcome = "raised" THEN "exited"
                           ELSE "logged"]

\* log_json, then break when once, else time.sleep and the next iteration
HeadlessSleep ==
    /\ driver.kind = "headless" /\ driver.pc = "logged"
    /\ driver' = [driver EXCEPT !.pc = IF driver.once THEN "exited" ELSE "loop"]
    /\ out' = NoCycle
    /\ earlier' = Past
    /\ UNCHANGED <<cfg, feed, deals, offline, positions, orders, calc>>

\* a _tick that hands the cycle to a thread of its own and re-arms the timer
Tick_Detached ==
    /\ driver.kind = "gui"
    /\ driver.pc = "start" \/ (driver.pc = "mainloop" /\ driver.timers > 0)
    /\ driver' = [driver EXCEPT !.pc = "mainloop", !.timers = 1,
                                !.inflight = @ + 1]
    /\ out' = NoCycle
    /\ earlier' = Past
    /\ UNCHANGED <<cfg, feed, deals, offline, positions, orders, calc>>

\* _tick is entered, called by run_gui itself or by the main loop when a
\* timer is due and no callback is running; it calls engine.cycle()
Tick ==
    /\ driver.kind = "gui"
    /\ driver.pc = "start" \/ (driver.pc = "mainloop" /\ driver.timers > 0)
    /\ driver' = [driver EXCEPT !.pc = "cycle",
                    !.timers = IF driver.pc = "start" THEN @ ELSE @ - 1,
                    !.inflight = @ + 1]
    /\ out' = NoCycle
    /\ earlier' = Past
    /\ UNCHANGED <<cfg, feed, deals, offline, positions, orders, calc>>

\* the call returns (update_from_engine) or raises (the title shows the
\* error); finally root.after arms the next _tick and the callback ends
TickEnd ==
    /\ driver.kind = "gui" /\ driver.pc = "cycle"
    /\ CycleEnds
    /\ driver' = [driver EXCEPT !.pc = "mainloop", !.timers = @ + 1,
                                !.inflight = @ - 1]

NextDrivers ==
    \/ HeadlessCall \/ HeadlessEnd \/ HeadlessSleep
    \/ Tick \/ TickEnd
    \/ DealsChange \/ QuotesChange

SpecDrivers == InitDrivers /\ [][NextDrivers]_vars

-----------------------------------------------------------------------------
(* Properties.  A state with out.outcome # "none" is the state right after *)
(* a cycle: cfg, feed, deals and offline are what that cycle read, and     *)
(* out.before is the position list it started from.                        *)

Ran == out.outcome # "none"

CycleReturned == out.outcome = "returned"

BelowLimit == _todays_realized_pnl < cfg.daily_loss_limit

\* s (a sent request with its answer) closes a position the cycle found open
IsCloseOrder(s) ==
    /\ s.req.action = "DEAL"
    /\ \E i \in 1..Len(out.before) :
         /\ out.before[i].ticket = s.req.position
         /\ out.before[i].symbol = s.req.symbol
         /\ out.before[i].volume = s.req.volume
         /\ s.req.type = IF out.before[i].type = "BUY" THEN "SELL" ELSE "BUY"

Accepted(k) == out.sent[k].res.retcode = "DONE"

\* the requests decision d submitted, by their place in out.sent
OrdersOf(d) == d.first_order .. d.last_order

Decisions == {out.decisions[i] : i \in 1..Len(out.decisions)}

\* C1: in a cycle over a non-empty feed whose realized P&L is below the
\* daily loss limit, the sizing loop decides nothing and logs no trade,
\* every request sent closes a position that was open (none is sent when
\* auto-close is off), and the payload returned has no usd_rows and
\* trades_executed 0.
C1_BreachBlocksAllSymbols ==
    (Ran /\ feed # <<>> /\ BelowLimit) =>
        /\ out.decisions = <<>>
        /\ out.trades = <<>>
        /\ out.total_trades = 0
        /\ \A k \in 1..Len(out.sent) : IsCloseOrder(out.sent[k])
        /\ ~cfg.auto_close_on_daily_loss_limit => out.sent = <<>>
        /\ CycleReturned => /\ out.payload.usd_rows = <<>>
                            /\ out.payload.trades_executed = 0

\* a breached cycle that had exposures to trade and sent close orders only
C1_Witness ==
    /\ CycleReturned /\ feed # <<>> /\ BelowLimit
    /\ out.rows # <<>>
    /\ out.sent # <<>>
    /\ out.payload.usd_rows = <<>>

\* C2: after a cycle that breached the limit with auto-close enabled has
\* returned, the terminal holds no open position.
C2_AutoCloseLeavesNoPosition ==
    (CycleReturned /\ feed # <<>> /\ BelowLimit
        /\ cfg.auto_close_on_daily_loss_limit) => positions = <<>>

\* the venue refused a close order: the cycle returned, the position stays
C2_Witness ==
    /\ CycleReturned /\ feed # <<>> /\ BelowLimit
    /\ cfg.auto_close_on_daily_loss_limit
    /\ Len(out.sent) = Len(out.before)
    /\ \E k \in 1..Len(out.sent) : ~Accepted(k)
    /\ positions # <<>>

\* C3: whatever the earlier cycles were, a cycle over a non-empty feed
\* takes the risk-guard path exactly when its own realized P&L is below the
\* limit, and otherwise runs the sizing loop over every row.
C3_NoLatch ==
    (Ran /\ feed # <<>>) =>
        /\ out.path = "breach" <=> BelowLimit
        /\ out.path = "normal" <=> ~BelowLimit
        /\ ~BelowLimit => Len(out.decisions) = Len(out.rows)

\* every earlier cycle was a breach, and this one trades
C3_Witness ==
    /\ CycleReturned /\ earlier = "breach"
    /\ out.path = "normal"
    /\ \E k \in 1..Len(out.sent) : Accepted(k)

\* C4: a decision is reported executed exactly when the venue accepted at
\* least one of the requests it submitted; trades_executed counts the
\* executed decisions and the trade log holds one record for each of them.
C4_PartialSuccessCounts ==
    (CycleReturned /\ out.path = "normal") =>
        /\ \A d \in Decisions :
             /\ d.executed <=> \E k \in OrdersOf(d) : Accepted(k)
             /\ Cardinality({i \in 1..Len(out.trades) :
                                out.trades[i].symbol = d.symbol})
                  = IF d.executed THEN 1 ELSE 0
        /\ out.payload.trades_executed
             = Cardinality({i \in 1..Len(out.decisions) :
                               out.decisions[i].executed})
        /\ Len(out.trades) = out.payload.trades_executed

\* a split order whose market leg was accepted and whose limit leg was not
C4_Witness ==
    /\ CycleReturned /\ out.path = "normal"
    /\ \E d \in Decisions :
         /\ d.last_order = d.first_order + 1
         /\ out.sent[d.first_order].req.action = "DEAL"
         /\ Accepted(d.first_order)
         /\ out.sent[d.last_order].req.action = "PENDING"
         /\ ~Accepted(d.last_order)
         /\ d.executed
         /\ out.payload.trades_executed >= 1

\* C5: the payload of every cycle that returned has the keys usd_rows,
\* pair_rows and trades_executed, and has the key status exactly when the
\* cycle ended on the risk-guard path.
C5_PayloadKeys ==
    CycleReturned =>
        /\ out.path \in {"empty", "breach", "normal"}
        /\ {"usd_rows", "pair_rows", "trades_executed"}
             \subseteq DOMAIN out.payload
        /\ "status" \in DOMAIN out.payload <=> out.path = "breach"

\* a breach payload: the three keys and status
C5_Witness ==
    /\ CycleReturned /\ out.path = "breach"
    /\ DOMAIN out.payload
         = {"usd_rows", "pair_rows", "trades_executed", "status"}

\* the rounded delta of d is below the symbol's minimum lot
Small(d) == RLt(RAbs(d.delta), R(d.min_lot))

\* the position d would lead to exceeds max_position_size
Exceeds(d) ==
    RGt(RAbs(RAdd(d.current_pos, d.delta)), R(cfg.max_position_size))

Logged(d) ==
    \E i \in 1..Len(out.rejected) :
        /\ out.rejected[i].symbol = d.symbol
        /\ out.rejected[i].reason = d.reason
        /\ out.rejected[i].delta_position = d.delta

\* C6: a decision whose target is less than the minimum lot away from the
\* current position has a rounded delta of exactly 0, the reason
\* 'Delta too small' and no order, whatever the trend gate and the
\* max-position check would say.
C6_DeltaTooSmall ==
    \A d \in Decisions :
        RLt(RAbs(RSub(d.target, d.current_pos)), R(d.min_lot)) =>
            /\ d.delta = RZero
            /\ d.reason[1] = "Delta too small: "
            /\ OrdersOf(d) = {}
            /\ ~d.executed

\* target and position differ by less than the minimum lot, not by zero,
\* and the trend gate would have refused the decision
C6_Witness ==
    \E d \in Decisions :
        /\ RLt(RAbs(RSub(d.target, d.current_pos)), R(d.min_lot))
        /\ d.target # d.current_pos
        /\ ~d.allow
        /\ d.reason[1] = "Delta too small: "

\* C7, as stated: an order goes out only within max_position_size, and a
\* decision that would exceed it sends nothing, has the reason 'Exceeds
\* max position size' and is in the rejection log.
C7_AsStated ==
    \A d \in Decisions :
        /\ OrdersOf(d) # {} => ~Exceeds(d)
        /\ Exceeds(d) => /\ OrdersOf(d) = {}
                         /\ d.reason = Reason("Exceeds max position size")
                         /\ Logged(d)

\* C7: an order goes out only within max_position_size; a decision that
\* would exceed it sends nothing, and when its delta is not too small and
\* the trend gate allows it, its reason is 'Exceeds max position size' and
\* it is in the rejection log.
C7_MaxPositionClamp ==
    \A d \in Decisions :
        /\ OrdersOf(d) # {} => ~Exceeds(d)
        /\ Exceeds(d) => OrdersOf(d) = {} /\ ~d.executed
        /\ (Exceeds(d) /\ ~Small(d) /\ d.allow) =>
              /\ d.reason = Reason("Exceeds max position size")
              /\ Logged(d)

\* a decision refused by the clamp
C7_Witness ==
    \E d \in Decisions :
        /\ Exceeds(d) /\ ~Small(d) /\ d.allow
        /\ d.reason = Reason("Exceeds max position size")
        /\ OrdersOf(d) = {}

\* the gate's rule as the configuration documents it
Blocked(d) ==
    \/ d.trend = "neutral" /\ ~cfg.allow_trades_on_neutral_trend
    \/ d.trend = "down" /\ RGt(d.target, d.current_pos)
                        /\ ~cfg.allow_trades_on_opposite_trend
    \/ d.trend = "up" /\ RLt(d.target, d.current_pos)
                      /\ ~cfg.allow_trades_on_opposite_trend

\* C8: a decision is blocked exactly in the three cases of the trend gate
\* (never when both permissions are on), and a blocked decision whose
\* delta is not too small sends no order and has the reason 'Trade
\* conditions not met'.
C8_TrendGate ==
    \A d \in Decisions :
        /\ ~d.allow <=> Blocked(d)
        /\ (cfg.allow_trades_on_neutral_trend
              /\ cfg.allow_trades_on_opposite_trend) => d.allow
        /\ (~d.allow /\ ~Small(d)) =>
              /\ OrdersOf(d) = {}
              /\ ~d.executed
              /\ d.reason = Reason("Trade conditions not met")

\* a buy against a down trend, blocked, while a neutral trend is permitted
C8_Witness ==
    \E d \in Decisions :
        /\ d.trend = "down" /\ RGt(d.target, d.current_pos)
        /\ cfg.allow_trades_on_neutral_trend
        /\ ~d.allow /\ ~Small(d)
        /\ d.reason = Reason("Trade conditions not met")

\* the currencies the feed's rows accumulate exposure in
AccumulatedCurrencies ==
    LET ledger == Accumulate(feed, [ledger |-> <<>>, steps |-> <<>>]).ledger
    IN  {ledger[i].ccy : i \in 1..Len(ledger)}

\* C9: in consolidation mode every consolidated row's symbol is tradable
\* and is the configured USD pair of an accumulated non-USD currency, no
\* two rows share a symbol, and no row pairs USD with a currency that has
\* no configured USD pair (USD itself included).
C9_ConsolidatedSymbols ==
    (Ran /\ feed # <<>> /\ cfg.consolidate_to_usd) =>
        /\ \A i \in 1..Len(out.rows) :
             /\ out.rows[i].symbol \in tradable
             /\ \E C \in AccumulatedCurrencies \ {USD} :
                    c2u(C) # NoSymbol /\ c2u(C) = out.rows[i].symbol
             /\ \A j \in 1..Len(out.rows) :
                    out.rows[j].symbol = out.rows[i].symbol => j = i
        /\ \A C \in AccumulatedCurrencies :
             (C = USD \/ c2u(C) = NoSymbol) =>
                \A i \in 1..Len(out.rows) :
                    out.rows[i].symbol \notin {C \o USD, USD \o C}

\* rows were emitted while USD and an unmapped currency were accumulated
C9_Witness ==
    /\ Ran /\ cfg.consolidate_to_usd
    /\ out.rows # <<>>
    /\ USD \in AccumulatedCurrencies
    /\ \E C \in AccumulatedCurrencies : C # USD /\ c2u(C) = NoSymbol

\* the requests the executor builds for decision d (none without market data)
Built(d) ==
    IF symbol_info(map(d.symbol)) = None
         \/ symbol_info_tick(map(d.symbol)) = None
    THEN <<>>
    ELSE BuildRequests(map(d.symbol), symbol_info(map(d.symbol)).val,
                       RGt(d.delta, RZero), RAbs(d.delta))

Tried(d) == d.reason \in {Reason("Trade executed"), Reason("Trade failed")}

\* C10: every row of the cycle gets its decision, in order; a decision
\* that reaches the executor submits every request built for it, whatever
\* the venue answered to the earlier ones; and the rejection log holds one
\* 'order_send failed' record for each request the venue rejected.
C10_RejectionDoesNotBlock ==
    (CycleReturned /\ out.path = "normal") =>
        /\ Len(out.decisions) = Len(out.rows)
        /\ \A i \in 1..Len(out.rows) :
               out.decisions[i].symbol = out.rows[i].symbol
        /\ \A d \in Decisions :
             /\ Tried(d) =>
                  /\ Cardinality(OrdersOf(d)) = Len(Built(d))
                  /\ \A k \in OrdersOf(d) :
                         out.sent[k].req = Built(d)[k - d.first_order + 1]
             /\ Cardinality({i \in 1..Len(out.rejected) :
                    /\ out.rejected[i].symbol = d.symbol
                    /\ out.rejected[i].reason = Reason("order_send failed")})
                  = Cardinality({k \in OrdersOf(d) : ~Accepted(k)})

\* both legs of the first symbol were rejected; the second symbol's order
\* went out and was accepted
C10_Witness ==
    /\ CycleReturned /\ out.path = "normal"
    /\ Len(out.decisions) = 2
    /\ Cardinality(OrdersOf(out.decisions[1])) = 2
    /\ \A k \in OrdersOf(out.decisions[1]) : ~Accepted(k)
    /\ \E k \in OrdersOf(out.decisions[2]) : Accepted(k)

\* floor of a non-negative volume to a multiple of step
FloorToStep(x, step) == R(RFloor(Rat(x.n, x.d * step)) * step)

Splitting == cfg.use_limit_orders /\ cfg.enable_partial_limit

\* the volumes of the requests decision d sent, by kind of request
LegVolumes(d, action) ==
    {out.sent[k].req.volume : k \in {j \in OrdersOf(d) :
                                       out.sent[j].req.action = action}}

\* the legs of d are a market leg of mkt and a limit leg of lim, each sent
\* exactly when it reaches the symbol's minimum volume
LegsAre(d, mkt, lim) ==
    LET info == symbol_info(map(d.symbol)).val
    IN  /\ LegVolumes(d, "DEAL")
             = IF RGe(mkt, R(info.volume_min)) THEN {mkt} ELSE {}
        /\ LegVolumes(d, "PENDING")
             = IF RGe(lim, R(info.volume_min)) THEN {lim} ELSE {}
        /\ Cardinality(OrdersOf(d))
             = Cardinality(LegVolumes(d, "DEAL"))
               + Cardinality(LegVolumes(d, "PENDING"))

\* a decision that reached the executor with market data at hand
Split(d) ==
    /\ Splitting /\ Tried(d)
    /\ symbol_info(map(d.symbol)) # None
    /\ symbol_info_tick(map(d.symbol)) # None

EndToEnd ==
    /\ Ran
    /\ feed = EndToEndFeed
    /\ ~cfg.use_fixed_multiplier
    /\ cfg.trade_size_multiplier = Rat(5, 100)
    /\ out.before = <<>>
    /\ offline = {}
    /\ ~BelowLimit
    /\ \A d \in Decisions : d.allow
    /\ \A k \in 1..Len(out.sent) : Accepted(k)

\* C12: in the end-to-end scenario the cycle returns, at least one order
\* is submitted, trades_executed is at least 1 and every usd_rows entry has
\* the keys Symbol, Trade Delta and PNL.
C12_EndToEnd ==
    EndToEnd =>
        /\ CycleReturned
        /\ out.sent # <<>>
        /\ out.payload.trades_executed >= 1
        /\ out.payload.usd_rows # <<>>
        /\ \A i \in 1..Len(out.payload.usd_rows) :
               {"Symbol", "Trade Delta", "PNL"}
                   \subseteq DOMAIN out.payload.usd_rows[i]

\* the scenario without consolidation: both symbols traded
C12_Witness ==
    /\ EndToEnd
    /\ ~cfg.consolidate_to_usd
    /\ out.payload.trades_executed = 2
    /\ Len(out.payload.usd_rows) = 2


\* C13 as stated, on doubles: for every x and every step > 0 the value r that
\* round_down_to_step(x, step) returns is 0 or has the sign of x, has
\* |r| <= |x|, is the product of step by a whole number of units, and is 0
\* whenever |x| < step.
C13_SignPreservingFloor ==
    (calc.pc = "returned" /\ calc.lot_step > 0) =>
        /\ calc.ret.m = <<>> \/ calc.ret.neg = calc.x.neg
        /\ FCmpAbs(calc.ret, calc.x) <= 0
        /\ calc.ret.m # <<>> => FAbs(calc.ret) = FMulInt(calc.units, calc.step)
        /\ FCmpAbs(calc.x, calc.step) < 0 => calc.ret = FZero

\* round_down_to_step(-0.27, 0.10) has floored and returned -0.20
C13_Witness ==
    /\ calc.pc = "returned"
    /\ calc.lots = -27 /\ calc.lot_step = 10
    /\ calc.units = 2
    /\ calc.ret = FLiteral(-20, 100)

Reached(d) == ~Small(d) /\ d.allow /\ ~Exceeds(d)

\* the executor could place nothing for d: the terminal has no symbol info
\* or no tick for its symbol, or the venue rejected every request sent
Failed(d) ==
    \/ symbol_info(map(d.symbol)) = None
    \/ symbol_info_tick(map(d.symbol)) = None
    \/ OrdersOf(d) # {} /\ \A k \in OrdersOf(d) : ~Accepted(k)

\* C15: one symbol's failure does not abort the cycle.  A cycle that enters
\* the sizing loop returns (it does not raise); every row, those after a
\* failed symbol included, has its decision and its display row, in order;
\* and a decision whose orders failed is recorded with the reason
\* 'Trade failed', not executed and without a trade-log entry.
C15_FailureDoesNotAbort ==
    (Ran /\ out.path = "normal") =>
        /\ out.outcome = "returned"
        /\ Len(out.decisions) = Len(out.rows)
        /\ Len(out.payload.usd_rows) = Len(out.rows)
        /\ \A i \in 1..Len(out.rows) :
             /\ out.decisions[i].symbol = out.rows[i].symbol
             /\ out.payload.usd_rows[i]["Symbol"] = out.rows[i].symbol
             /\ out.payload.usd_rows[i]["Reason"] = out.decisions[i].reason
             /\ (Reached(out.decisions[i]) /\ Failed(out.decisions[i])) =>
                  /\ out.decisions[i].reason = Reason("Trade failed")
                  /\ ~out.decisions[i].executed
                  /\ \A t \in 1..Len(out.trades) :
                         out.trades[t].symbol # out.decisions[i].symbol

\* the terminal had no market data for the first symbol, whose trade
\* failed without a request; the second symbol's order went out
C15_Witness ==
    /\ CycleReturned /\ out.path = "normal"
    /\ Len(out.decisions) = 2
    /\ symbol_info(map(out.decisions[1].symbol)) = None
    /\ out.decisions[1].reason = Reason("Trade failed")
    /\ OrdersOf(out.decisions[1]) = {}
    /\ out.decisions[2].reason = Reason("Trade executed")

\* the cycle ran _close_all_positions
Closing == Ran /\ out.path = "breach" /\ cfg.auto_close_on_daily_loss_limit

\* the requests sent for position p: market orders on p's symbol, of p's
\* full volume, on the opposite side, naming p's ticket
ClosesOf(p) ==
    {k \in 1..Len(out.sent) :
        /\ out.sent[k].req.action = "DEAL"
        /\ out.sent[k].req.symbol = p.symbol
        /\ out.sent[k].req.volume = p.volume
        /\ out.sent[k].req.type = IF p.type = "BUY" THEN "SELL" ELSE "BUY"
        /\ out.sent[k].req.position = p.ticket}

\* C16 as stated: _close_all_positions sends exactly one closing market
\* order for each open position, whatever its symbol, and nothing else, and
\* returns the number of orders the venue confirmed, between 0 and the
\* number of open positions.
C16_CloseAll ==
    Closing =>
        /\ \A i \in 1..Len(out.before) :
               Cardinality(ClosesOf(out.before[i])) = 1
        /\ Len(out.sent) = Len(out.before)
        /\ out.outcome = "returned"
        /\ out.closed = Cardinality({k \in 1..Len(out.sent) : Accepted(k)})
        /\ 0 <= out.closed /\ out.closed <= Len(out.before)

\* two positions on different symbols were open; each got its closing
\* order, the venue confirmed one of them, and 1 was returned
C16_Witness ==
    /\ Closing /\ out.outcome = "returned"
    /\ Len(out.before) = 2
    /\ out.before[1].symbol # out.before[2].symbol
    /\ \A i \in 1..2 : Cardinality(ClosesOf(out.before[i])) = 1
    /\ Len(out.sent) = 2
    /\ out.closed = 1

\* the multiplier in force
Multiplier ==
    IF cfg.use_fixed_multiplier THEN cfg.fixed_multiplier
    ELSE cfg.trade_size_multiplier

\* C17: the target mirrors the exposure.  Every decision's target position
\* is minus the row's net client volume times the multiplier in force
\* (fixed_multiplier when use_fixed_multiplier, else trade_size_multiplier);
\* a positive net gives a target that is not positive, a negative net one
\* that is not negative; the display row and the trade log carry that
\* target.
C17_TargetMirrorsExposure ==
    \A i \in 1..Len(out.decisions) :
        /\ out.decisions[i].current_net = out.rows[i].net_volume
        /\ RAdd(out.decisions[i].target,
                RMul(out.rows[i].net_volume, Multiplier)) = RZero
        /\ RGt(out.rows[i].net_volume, RZero) =>
               RLe(out.decisions[i].target, RZero)
        /\ RLt(out.rows[i].net_volume, RZero) =>
               RGe(out.decisions[i].target, RZero)
        /\ out.payload.usd_rows[i]["Target Position"]
               = Fmt2(out.decisions[i].target)
        /\ \A t \in 1..Len(out.trades) :
               out.trades[t].symbol = out.decisions[i].symbol =>
                   out.trades[t].target_position = out.decisions[i].target

\* net 4.00 lots at multiplier 0.05: target -0.20 lots, sold
C17_Witness ==
    /\ CycleReturned
    /\ ~cfg.use_fixed_multiplier /\ cfg.trade_size_multiplier = Rat(5, 100)
    /\ \E i \in 1..Len(out.decisions) :
         /\ out.decisions[i].current_net = R(400)
         /\ out.decisions[i].target = R(-20)
         /\ out.decisions[i].executed
         /\ \E k \in OrdersOf(out.decisions[i]) : out.sent[k].req.type = "SELL"

\* C18: the risk check is a predicate on realized P&L alone.  A cycle over
\* a non-empty feed takes the breach path exactly when today's realized
\* P&L is strictly below daily_loss_limit; realized P&L equal to the limit
\* is no breach; and the floating P&L the cycle read, above or below the
\* limit, changes nothing in that.
C18_RiskPredicate ==
    (Ran /\ feed # <<>>) =>
        /\ out.realized = _todays_realized_pnl
        /\ out.path = "breach" <=> out.realized < cfg.daily_loss_limit
        /\ out.realized = cfg.daily_loss_limit => out.path = "normal"
        /\ out.path \in {"breach", "normal"}

\* realized P&L exactly at the limit and a floating loss beyond it: the
\* cycle sized and traded
C18_Witness ==
    /\ CycleReturned /\ out.path = "normal"
    /\ out.realized = cfg.daily_loss_limit
    /\ out.unrealized < cfg.daily_loss_limit
    /\ out.realized + out.unrealized < cfg.daily_loss_limit
    /\ out.sent # <<>>

\* C19: the drivers serialize the cycles.  Under run_headless and under
\* run_gui's timer loop at most one call of engine.cycle() is in flight: a
\* call is entered only when none is, and no timer is pending while one is.
C19_Serialized ==
    /\ driver.inflight \in {0, 1}
    /\ driver.inflight = 1 <=> driver.pc = "cycle"
    /\ driver.timers \in {0, 1}
    /\ driver.inflight = 1 => driver.timers = 0

\* run_gui: a later cycle is in flight, entered from a timer after an
\* earlier cycle had ended
C19_Witness ==
    /\ driver.kind = "gui" /\ driver.pc = "cycle" /\ driver.inflight = 1
    /\ earlier # "none"


\* the rows of the feed that enter the ledger: 6-letter alphabetic symbols
\* whose mid price is available
Priced(i) == IsForexPair(feed[i].symbol) /\ _mid_price(feed[i].symbol) # None

\* what row i adds to the units of currency C, by the stated sums
Contribution(i, C) ==
    LET sym == feed[i].symbol
        lots == feed[i].net_volume
        cs == _contract_size_for(sym)
    IN  RAdd(IF SubSeq(sym, 1, 3) = C THEN RMul(lots, cs) ELSE RZero,
             IF SubSeq(sym, 4, 6) = C
             THEN RMul(RMul(RNeg(lots), cs), _mid_price(sym).val)
             ELSE RZero)

StatedLedger(C) ==
    SumSeq([i \in 1..Len(feed) |->
              IF Priced(i) THEN Contribution(i, C) ELSE RZero])

StatedNet(C) ==
    IF SubSeq(c2u(C), 1, 3) = USD
    THEN RDiv(RNeg(StatedLedger(C)),
              RMul(_contract_size_for(c2u(C)), _mid_price(c2u(C)).val))
    ELSE RDiv(StatedLedger(C), _contract_size_for(c2u(C)))

FeedCurrencies ==
    UNION {{SubSeq(feed[i].symbol, 1, 3), SubSeq(feed[i].symbol, 4, 6)} :
             i \in {j \in 1..Len(feed) : Priced(j)}}

\* C20: after a cycle that consolidated a feed, the units recorded for each
\* currency of the priced 6-letter rows are the sum over those rows of
\* net_volume*contract_size where the currency is the base and of
\* -net_volume*contract_size*mid where it is the quote; a non-USD currency
\* whose USD pair has a price is recorded (and, when the pair is tradable,
\* emitted as a row) with -units/(contract_size(pair)*mid(pair)) net lots
\* when the pair starts with USD and units/contract_size(pair) otherwise;
\* USD itself is recorded with its units and no pair.
C20_AggregationResult ==
    (Ran /\ feed # <<>> /\ cfg.consolidate_to_usd) =>
        \A C \in FeedCurrencies :
            IF C = USD \/ c2u(C) = NoSymbol
            THEN \E k \in 1..Len(out.steps) :
                    /\ out.steps[k].formula = "N/A (no USD pair)"
                    /\ out.steps[k].aggregated_net_units = StatedLedger(C)
            ELSE IF _mid_price(c2u(C)) = None
            THEN \E k \in 1..Len(out.steps) :
                    /\ out.steps[k].symbol = c2u(C)
                    /\ out.steps[k].formula = "N/A (no mid price)"
                    /\ out.steps[k].aggregated_net_units = StatedLedger(C)
            ELSE /\ \E k \in 1..Len(out.steps) :
                    /\ out.steps[k].symbol = c2u(C)
                    /\ out.steps[k].net_volume = RZero
                    /\ out.steps[k].aggregated_net_units = StatedLedger(C)
                    /\ out.steps[k].current_net = StatedNet(C)
                 /\ c2u(C) \in tradable =>
                        \E k \in 1..Len(out.rows) :
                            out.rows[k] = UsdRow(c2u(C), StatedNet(C))

\* a cycle consolidated two rows that share EUR, with USDJPY (a pair that
\* starts with USD) and EURUSD both priced, and emitted a row for each
C20_Witness ==
    /\ Ran /\ cfg.consolidate_to_usd
    /\ Len(feed) = 2 /\ Priced(1) /\ Priced(2)
    /\ feed[1].symbol # feed[2].symbol
    /\ \A i \in 1..2 : EUR \in {SubSeq(feed[i].symbol, 1, 3),
                                SubSeq(feed[i].symbol, 4, 6)}
    /\ JPY \in FeedCurrencies
    /\ StatedLedger(EUR).n # 0 /\ StatedLedger(JPY).n # 0
    /\ \E k \in 1..Len(out.rows) : out.rows[k] = UsdRow(USDJPY, StatedNet(JPY))
    /\ \E k \in 1..Len(out.rows) : out.rows[k] = UsdRow(EURUSD, StatedNet(EUR))

\* the non-USD currencies of the priced rows whose units sum to exactly zero
ZeroCurrencies == {C \in FeedCurrencies \ {USD} : StatedLedger(C).n = 0}

\* C21: in a consolidating cycle a non-USD currency whose unit ledger is
\* exactly zero after all rows were scanned emits no consolidated row, gets
\* no sizing decision and no order is submitted on its USD pair.
C21_ZeroLedgerEmitsNothing ==
    (Ran /\ feed # <<>> /\ cfg.consolidate_to_usd) =>
        \A C \in ZeroCurrencies :
            /\ \A k \in 1..Len(out.rows) : out.rows[k].symbol # c2u(C)
            /\ \A d \in Decisions : d.symbol # c2u(C)
            /\ \A k \in 1..Len(out.sent) : out.sent[k].req.symbol # map(c2u(C))

\* a cycle consolidated a feed in which EUR's units are zero and returned
\* on the normal path with a zero-lot EURUSD row and a decision for it
C21_Witness ==
    /\ CycleReturned /\ out.path = "normal" /\ cfg.consolidate_to_usd
    /\ EUR \in ZeroCurrencies
    /\ \E k \in 1..Len(out.rows) : out.rows[k] = UsdRow(EURUSD, RZero)
    /\ \E d \in Decisions : d.symbol = EURUSD /\ d.target = RZero

\* the non-USD currencies of the priced rows whose USD pair is configured
Mapped == {C \in FeedCurrencies \ {USD} : c2u(C) # NoSymbol}

\* ... and the ones among them whose pair can be emitted: priced and tradable
Emitted == {C \in Mapped : _mid_price(c2u(C)) # None /\ c2u(C) \in tradable}

\* C22: in a consolidating cycle (a) a 6-letter row without a mid price gets
\* an audit step 'N/A (no mid price)' with zero exposures and adds nothing
\* to any ledger: the units recorded for every currency are the sums over
\* the priced rows alone; (b) a currency whose USD pair has no mid price
\* gets an audit step with its units and zero net lots, and no row; (c) the
\* other currencies are emitted exactly as they would be without the gap,
\* one row each with the stated net lots, and on the normal path every
\* emitted row gets its sizing decision.
C22_MissingMidIsRecoverable ==
    (Ran /\ feed # <<>> /\ cfg.consolidate_to_usd) =>
        /\ \A i \in 1..Len(feed) :
             (IsForexPair(feed[i].symbol) /\ ~Priced(i)) =>
                out.steps[i] = RowStep(feed[i].symbol, feed[i].net_volume,
                                       RZero, RZero, "N/A (no mid price)")
        /\ \A C \in Mapped :
             \E k \in (Len(feed) + 1)..Len(out.steps) :
                /\ out.steps[k].symbol = c2u(C)
                /\ out.steps[k].aggregated_net_units = StatedLedger(C)
        /\ \A C \in Mapped :
             _mid_price(c2u(C)) = None =>
                /\ \A k \in 1..Len(out.rows) : out.rows[k].symbol # c2u(C)
                /\ \E k \in (Len(feed) + 1)..Len(out.steps) :
                      out.steps[k] = CcyStep(c2u(C), StatedLedger(C), RZero,
                                             "N/A (no mid price)")
        /\ \A C \in Emitted :
             \E k \in 1..Len(out.rows) :
                out.rows[k] = UsdRow(c2u(C), StatedNet(C))
        /\ Len(out.rows) = Cardinality(Emitted)
        /\ Len(out.steps) = Len(feed) + Cardinality(FeedCurrencies)
        /\ out.path = "normal" =>
             /\ out.outcome = "returned"
             /\ Len(out.decisions) = Len(out.rows)

\* a cycle consolidated an unpriced EURUSD row and a priced EURJPY row: EUR
\* holds the EURJPY units only and has no row (EURUSD has no price), JPY is
\* emitted on USDJPY and decided
C22_Witness ==
    /\ CycleReturned /\ out.path = "normal" /\ cfg.consolidate_to_usd
    /\ Len(feed) = 2
    /\ feed[1].symbol = EURUSD /\ feed[1].net_volume # RZero /\ ~Priced(1)
    /\ feed[2].symbol = EURJPY /\ Priced(2)
    /\ StatedLedger(EUR) = RMul(feed[2].net_volume, _contract_size_for(EURJPY))
    /\ Len(out.rows) = 1 /\ out.rows[1] = UsdRow(USDJPY, StatedNet(JPY))
    /\ Len(out.decisions) = 1

\* the call of compute_trend_metrics has returned
TrendReturned == calc.pc = "returned" /\ calc.ret # None

\* C23: compute_trend_metrics returns without raising; when the series has
\* fewer points than max(short period, long period) the result is trend
\* 'neutral', strength 0.0, RSI and MACD absent; otherwise the trend is
\* 'up' exactly when strength > neutral_eps, 'down' exactly when
\* strength < -neutral_eps, and 'neutral' in every other case, a strength
\* equal to +neutral_eps or -neutral_eps included.
C23_TrendClassification ==
    /\ calc.pc \in {"called", "measured", "returned"}
    /\ calc.pc = "measured" =>
          Len(calc.s) >= Max(short_sma_period, long_sma_period)
    /\ TrendReturned =>
          IF Len(calc.s) < Max(short_sma_period, long_sma_period)
          THEN calc.ret.val = TrendMetrics("neutral", RZero, None, None)
          ELSE /\ calc.ret.val.trend \in {"up", "down", "neutral"}
               /\ calc.ret.val.trend = "up" <=>
                     RGt(calc.ret.val.sma_diff, R(calc.neutral_eps))
               /\ calc.ret.val.trend = "down" <=>
                     RLt(calc.ret.val.sma_diff, R(-calc.neutral_eps))
               /\ RAbs(calc.ret.val.sma_diff) = R(calc.neutral_eps) =>
                     calc.ret.val.trend = "neutral"

\* a call over 50 points whose strength is exactly the shipped threshold
\* (the last 10 closes 25 ticks up: 25 * 40/50 = 20) returned 'neutral'
C23_Witness ==
    /\ TrendReturned
    /\ Len(calc.s) = long_sma_period
    /\ calc.neutral_eps = 20
    /\ calc.ret.val.sma_diff = R(20)
    /\ calc.ret.val.trend = "neutral"
    /\ calc.ret.val.rsi # None /\ calc.ret.val.macd # None

\* the sizing call delta = round_down_to_step(target - current_pos, min_lot)
\* returned a delta the loop submits an order for: |delta| >= min_lot
SizedOrder ==
    /\ calc.pc = "returned" /\ calc.lot_step > 0
    /\ FCmpAbs(calc.ret, calc.step) >= 0

\* C24 as stated, on doubles: the order submitted for a rounded delta buys
\* exactly when target - current_position is positive and its volume
\* |delta| is at most |target - current_position|, so a full fill never
\* takes the position past the target.
C24_NoOvershoot ==
    SizedOrder =>
        /\ ~calc.ret.neg <=> ~calc.x.neg
        /\ FCmpAbs(calc.ret, calc.x) <= 0

\* target - current_position = 0.35 with min lot 0.01: the order is for 35
\* units of 0.01, a volume above 0.35
C24_Witness ==
    /\ SizedOrder
    /\ calc.lots = 35 /\ calc.lot_step = 1
    /\ calc.units = 35
    /\ FCmpAbs(calc.ret, calc.x) > 0

\* the rows the sizing loop of a cycle would read now
SizingRows ==
    IF cfg.consolidate_to_usd
    THEN _compute_usd_pairs_from_currency_exposures(feed).rows
    ELSE to_usd_equivalents(feed).rows

\* the signed volume of the limit orders still pending on a symbol
PendingVolume(symbol) ==
    LET mine == SelectSeq(orders, LAMBDA o : o.symbol = map(symbol))
    IN  SumSeq([i \in 1..Len(mine) |->
                  IF mine[i].type = "BUY_LIMIT" THEN mine[i].volume
                  ELSE RNeg(mine[i].volume)])

\* the open position of a symbol plus its pending limit volume
Committed(symbol) ==
    RAdd(get_current_position(positions, symbol), PendingVolume(symbol))

\* C25: with split orders enabled and the exposure unchanged, at every
\* moment of every sequence of cycles the open position of a symbol plus
\* the volume of its still-pending limit orders does not exceed the target
\* in the direction of the target.
C25_PendingAccounted ==
    (cfg.use_limit_orders /\ cfg.enable_partial_limit) =>
        \A k \in 1..Len(SizingRows) :
            LET symbol == SizingRows[k].symbol
                target == RMul(RNeg(SizingRows[k].net_volume), Multiplier)
            IN  /\ RGt(target, RZero) => RLe(Committed(symbol), target)
                /\ RLt(target, RZero) => RGe(Committed(symbol), target)

\* a later cycle has traded EURUSD while the limit leg of an earlier cycle
\* was still pending, and position plus pending volume now pass the target
C25_Witness ==
    /\ cfg.use_limit_orders /\ cfg.enable_partial_limit
    /\ earlier = "other" /\ CycleReturned /\ out.path = "normal"
    /\ \E d \in Decisions :
          /\ d.symbol = EURUSD /\ d.executed
          /\ RGt(d.target, RZero)
          /\ RGt(d.current_pos, RZero)
          /\ PendingVolume(EURUSD) # RZero
          /\ RGt(Committed(EURUSD), d.target)

\* C26 as stated, on doubles: with unchanged exposure and every order
\* filled in full, the cycle after one that executed a trade finds
\* |target - current_position| < min_lot and submits nothing, and so does
\* every later cycle: the symbol is traded at most once.
C26_Converges ==
    /\ (calc.pc \in {"called", "floored", "returned"} /\ calc.traded) =>
          FCmpAbs(calc.x, calc.step) < 0
    /\ (calc.pc = "returned" /\ calc.traded) => calc.ret = FZero
    /\ Len(calc.held) <= 1

\* target 0.58 with min lot 0.01: the first cycle bought 0.57, and the
\* second finds 0.58 - 0.57 not below 0.01 and buys again
C26_Witness ==
    /\ calc.lots = 58 /\ calc.lot_step = 1
    /\ calc.cycle = 2 /\ calc.traded
    /\ calc.current_pos = FLiteral(57, 100)
    /\ calc.pc = "returned"
    /\ calc.ret = FLiteral(1, 100)

\* C27: a cycle over an empty feed returns usd_rows [], pair_rows [] and
\* trades_executed 0 with no status, sends no request of any kind (no
\* auto-close order either) and leaves the positions and the logs as they
\* were, also when the realized P&L is below the limit and auto-close is on.
C27_EmptyFeedEndsCycle ==
    (Ran /\ feed = <<>>) =>
        /\ out.outcome = "returned"
        /\ out.payload = [usd_rows |-> <<>>, pair_rows |-> <<>>,
                          trades_executed |-> 0]
        /\ out.sent = <<>>
        /\ out.closed = 0
        /\ out.rejected = <<>> /\ out.trades = <<>> /\ out.decisions = <<>>
        /\ positions = out.before

\* a cycle over an empty feed has returned with a position open, the
\* realized P&L below the limit and auto-close enabled
C27_Witness ==
    /\ CycleReturned /\ feed = <<>>
    /\ BelowLimit /\ cfg.auto_close_on_daily_loss_limit
    /\ positions # <<>>
    /\ out.payload.trades_executed = 0

\* the sum of the volumes of the legs submitted, added as doubles
LegsTotal == FSumFrom([i \in 1..Len(calc.requests) |-> calc.requests[i].volume], FZero)

\* C28 as stated, on doubles: when the legs have been submitted, in split
\* mode each leg's volume is a whole number of lot steps and at least the
\* minimum lot, and the legs' volumes add up to at most the approved
\* volume; in non-split mode there is exactly one market order, for exactly
\* the approved volume.
C28_LegsWithinVolume ==
    calc.pc = "sent" =>
        IF calc.split
        THEN /\ \A i \in 1..Len(calc.requests) :
                  /\ calc.requests[i].units >= 1
                  /\ calc.requests[i].volume
                        = FMulInt(calc.requests[i].units, calc.step)
                  /\ FCmpAbs(calc.requests[i].volume, calc.step) >= 0
             /\ FCmpAbs(LegsTotal, calc.volume) <= 0
        ELSE calc.requests = <<[action |-> "DEAL", volume |-> calc.volume,
                                units |-> 0]>>

\* approved volume 0.43 with market_order_percentage 0.2 and step 0.01: a
\* market leg of 0.08 and a limit leg of 35 steps were submitted, and they
\* add up to more than 0.43
C28_Witness ==
    /\ calc.pc = "sent" /\ calc.split
    /\ calc.lots = 43 /\ calc.lot_step = 1 /\ calc.tenths = 2
    /\ Len(calc.requests) = 2
    /\ calc.requests[1].volume = FLiteral(8, 100)
    /\ calc.requests[2].units = 35
    /\ FCmpAbs(LegsTotal, calc.volume) > 0

\* decision d would strictly reduce the absolute position
Reduces(d) ==
    RLt(RAbs(RAdd(d.current_pos, d.delta)), RAbs(d.current_pos))

\* C29: a decision whose delta strictly reduces the absolute position is
\* never rejected with 'Exceeds max position size'.
C29_ReductionNotBlocked ==
    \A d \in Decisions :
        Reduces(d) => d.reason # Reason("Exceeds max position size")

\* a position of -400 lots with a target of -350 lots: the buy of 50 lots
\* that would reduce it was rejected for exceeding the maximum of 300
C29_Witness ==
    /\ CycleReturned /\ out.path = "normal"
    /\ \E d \in Decisions :
          /\ d.symbol = EURUSD
          /\ d.current_pos = R(-40000) /\ d.target = R(-35000)
          /\ d.delta = R(5000) /\ Reduces(d)
          /\ d.reason = Reason("Exceeds max position size")
          /\ OrdersOf(d) = {}

\* the usd_rows entries of the returned payload that report an executed trade
ExecutedEntries ==
    {i \in 1..Len(out.payload.usd_rows) :
        out.payload.usd_rows[i]["Reason"] = Reason("Trade executed")}

\* C30: on the normal path the payload has one usd_rows entry per
\* consolidated row, in the order of the rows; the executor is called at
\* most once per row (the orders of the cycle fall into one run per row, of
\* at most two legs, all on the row's symbol); trades_executed is the number
\* of entries whose Reason is 'Trade executed' and the number of trade
\* records written in the cycle, and lies between 0 and the number of
\* entries.
C30_DecisionAccounting ==
    (CycleReturned /\ out.path = "normal") =>
        /\ Len(out.payload.usd_rows) = Len(out.rows)
        /\ Len(out.decisions) = Len(out.rows)
        /\ \A i \in 1..Len(out.rows) :
              /\ out.payload.usd_rows[i]["Symbol"] = out.rows[i].symbol
              /\ out.decisions[i].symbol = out.rows[i].symbol
              /\ out.decisions[i].first_order =
                     IF i = 1 THEN 1 ELSE out.decisions[i - 1].last_order + 1
              /\ Cardinality(OrdersOf(out.decisions[i])) <= 2
              /\ \A k \in OrdersOf(out.decisions[i]) :
                     out.sent[k].req.symbol = map(out.rows[i].symbol)
        /\ out.rows # <<>> =>
               out.decisions[Len(out.rows)].last_order = Len(out.sent)
        /\ out.rows = <<>> => out.sent = <<>>
        /\ out.payload.trades_executed = Cardinality(ExecutedEntries)
        /\ out.payload.trades_executed = Len(out.trades)
        /\ out.payload.trades_executed >= 0
        /\ out.payload.trades_executed <= Len(out.payload.usd_rows)

\* a normal cycle over two rows: the trade of one row executed, that of the
\* other failed, and the payload counts one trade in two entries
C30_Witness ==
    /\ CycleReturned /\ out.path = "normal"
    /\ Len(out.rows) = 2 /\ Len(out.payload.usd_rows) = 2
    /\ \E i, j \in 1..2 :
          /\ out.payload.usd_rows[i]["Reason"] = Reason("Trade executed")
          /\ out.payload.usd_rows[j]["Reason"] = Reason("Trade failed")
          /\ OrdersOf(out.decisions[j]) # {}
    /\ out.payload.trades_executed = 1
    /\ Len(out.trades) = 1

=============================================================================
